---------------------------- MODULE Spec2Model ----------------------------
(***************************************************************************)
(* Model of the Agent Config Scanner of elizaOS/plugins-automation         *)
(* (class AgentConfigScanner, src/src/migratePlugins.ts lines 355-1002;    *)
(* src/src/agentConfigScan.ts holds an earlier variant of the same class), *)
(* of the plugin migration (lines 1-221 of the same file) and of the       *)
(* package scope rename (lines 222-314).                                   *)
(*                                                                         *)
(* JavaScript values are modelled as follows.                              *)
(*   - an object is a TLA+ function whose DOMAIN is the set of its own     *)
(*     properties; an optional property that is not set is not in DOMAIN   *)
(*     (reading it yields undefined);                                      *)
(*   - null is the record Null;                                            *)
(*   - a string the code only compares is a TLA+ string; a string the code *)
(*     takes apart (split, parseInt, match) is a sequence of tokens.       *)
(* Property names are taken from identifiers that are not members of       *)
(* Object.prototype, so obj[name] reads an own property or undefined.      *)
(***************************************************************************)
EXTENDS Integers, Sequences, FiniteSets, TLC

VARIABLES
    \* ---- mergeEnvVariables / dedup / hasConfigurationChanged called alone
    existing,        \* argument `existing`  (AgentConfig | null)
    discovered,      \* argument `discovered` (EnvVariable[])
    updated,         \* argument `updated` of hasConfigurationChanged
    merged,          \* mergeEnvVariables(existing, discovered)
    remerged,        \* mergeEnvVariables(merged, discovered)
    unique,          \* the uniqueEnvVars filter applied to `discovered`
    mergedUnique,    \* mergeEnvVariables(existing, unique)
    changed,         \* hasConfigurationChanged(existing, updated)
    existingAfter,   \* the caller's `existing` object after the call
    mpc,             \* position of the caller
    \* ---- the version bump of updatePackageJson called alone
    version,         \* packageJson.version before the bump
    newVersion,      \* packageJson.version after the bump
    vpc,             \* position of the caller
    \* ---- the response parsing of analyzeFileWithLLM called alone
    responseText,    \* the trimmed text of the capability's response
    parsed,          \* what the parsing returned or threw
    ppc,             \* position of the caller
    \* ---- scanFilesForEnvVars called alone
    tree,            \* the entries of the root directory
    treeAfter,       \* the same after the traversal
    scan,            \* what scanFilesForEnvVars returned or threw
    spc,             \* position of the caller
    \* ---- the plugin migration: main and migrateRepository
    reposToMigrate,  \* the repositories without a 1.x branch
    migIndex,        \* the loop variable i of main, counted from 1
    migpc,           \* position in main and migrateRepository
    thrown,          \* an error is on its way through the finally
    tempDirs,        \* the repositories that have a directory in TEMP_DIR
    attempted,       \* the repositories migrateRepository was called for
    outcomes,        \* what main logged for each of them
    warned,          \* the repositories of the cleanup warnings
    \* ---- the package scope rename: main
    orgRepos,        \* the repositories of the organisation, as GitHub has them
    renIndex,        \* the repository the loop is at
    renpc,           \* position in main
    fileData,        \* response.data of getContent
    writes,          \* the calls of createOrUpdateFileContents that succeeded
    \* ---- one package processed twice
    packageJson,     \* the package.json of the 1.x branch
    extraction,      \* the declarations the analysis of the artifacts yields
    processed,       \* the outcome and the manifest of each processing
    rpc,             \* position of the caller
    \* ---- main, run and processRepository
    runpc,           \* position in main and run
    githubToken,     \* process.env.GITHUB_TOKEN
    openaiApiKey,    \* process.env.OPENAI_API_KEY
    testMode,        \* this.TEST_MODE
    workingTrees,    \* the repositories that have a directory in tempDir
    repositories,    \* what getRepositories returned
    repo,            \* index in filteredRepos of the repository run is at
    settled,         \* how the processRepository call of `repo` settled
    active,          \* repositories whose processRepository has not settled
    classifications, \* terminal spinner messages per repository, counted
    listing,         \* what listBranches answered for the repository
    clonedBranch,    \* the branch of the `git clone -b`
    packageUpdated,  \* what updatePackageJson returned
    committed,       \* what commitChanges returned
    manifest,        \* the writes to the package.json of the repository
    report,          \* which of the messages of lines 894-906 was given
    persisted,       \* how updatePackageJson and commitChanges went
    pc,              \* position in processRepository
    currentConfig,   \* the manifest's agentConfig, or null
    files,           \* the artifact list scanFilesForEnvVars returned
    response,        \* what the analysis of each artifact will meet
    iLoop,           \* the loop variable i of the batch loop
    batch,           \* files.slice(i, i + 5) of the batch in progress
    pending,         \* <<repository, artifact>> of every unresolved call
    results,         \* what each resolved call returned
    calls,           \* how often each artifact was passed to the extractor
    batches,         \* the batches issued so far, in order
    delays,          \* the inter-batch delays of the package so far
    lastBatch,       \* "issued" from a batch until the next timer fires
    overtaken,       \* a call resolved before one of an earlier artifact
    allEnvVars,      \* the accumulated declarations
    uniqueEnvVars,   \* the deduplicated declarations
    updatedConfig,   \* the merged configuration
    error            \* what the catch of processRepository caught

mergeVars == <<existing, discovered, updated, merged, remerged, unique,
               mergedUnique, changed, existingAfter, mpc>>

versionVars == <<version, newVersion, vpc>>

parseVars == <<responseText, parsed, ppc>>

runVars == <<runpc, githubToken, openaiApiKey, testMode, workingTrees,
             repositories, settled, active, classifications>>

packageVars == <<listing, clonedBranch, packageUpdated, committed, manifest,
                 report, persisted>>

driverVars == <<runVars, packageVars, repo, pc, currentConfig, files, response, iLoop, batch, pending,
                results, calls, batches, delays, lastBatch, overtaken,
                allEnvVars, uniqueEnvVars, updatedConfig, error>>

scanVars == <<tree, treeAfter, scan, spc>>

migrateVars == <<reposToMigrate, migIndex, migpc, thrown, tempDirs,
                 attempted, outcomes, warned>>

renameVars == <<orgRepos, renIndex, renpc, fileData, writes>>

rerunVars == <<packageJson, extraction, processed, rpc>>

scriptVars == <<migrateVars, renameVars, rerunVars>>

vars == <<mergeVars, versionVars, parseVars, scanVars, scriptVars,
          driverVars>>

-----------------------------------------------------------------------------
(* Bounds of the model *)

MaxDiscovered == 3
MaxParts == 4
MaxResponse == 5
MaxFiles == 4
MaxLongFiles == 12
MaxRepos == 2
MaxEntries == 2
MaxMigrate == 2
MaxOrgRepos == 2

-----------------------------------------------------------------------------
(* JavaScript values *)

Null == [null |-> TRUE]

\* obj.k === other.k for a property that may be unset on either side
SameProp(a, b, k) ==
    /\ (k \in DOMAIN a) <=> (k \in DOMAIN b)
    /\ (k \in DOMAIN a) => (a[k] = b[k])

\* All sequences over S of length at most n
SeqsUpTo(S, n) == UNION { [1..k -> S] : k \in 0..n }

-----------------------------------------------------------------------------
(* interface EnvVariable / interface AgentConfig *)

Names == {"A", "B"}
DEFAULT_PLUGIN_TYPE == "elizaos:plugin:1.0.0"
PluginTypes == {DEFAULT_PLUGIN_TYPE, "elizaos:plugin:2.0.0"}

\* Declarations as the analysis capability may report them: required and
\* defaultValue are optional, defaultValue may be the empty string.
EnvVariables ==
    UNION { { [name |-> n, type |-> "string", description |-> "d1"],
              [name |-> n, type |-> "number", description |-> "d2",
               required |-> TRUE, defaultValue |-> "v"],
              [name |-> n, type |-> "string", description |-> "d2",
               required |-> FALSE, defaultValue |-> ""] } : n \in Names }

\* Values of AgentConfig.pluginParameters[name]; each differs from the first
\* in one attribute.
ParameterValues ==
    { [type |-> "string", description |-> "d1"],
      [type |-> "number", description |-> "d1"],
      [type |-> "string", description |-> "d2"],
      [type |-> "string", description |-> "d1", required |-> TRUE],
      [type |-> "string", description |-> "d1", required |-> FALSE],
      [type |-> "string", description |-> "d1", default |-> "v"] }

\* A smaller set of parameter values for configurations that are merged into
ExistingValues ==
    { [type |-> "string", description |-> "d1"],
      [type |-> "number", description |-> "d0", required |-> TRUE],
      [type |-> "string", description |-> "d0", default |-> "w"] }

ParameterMaps(V) == UNION { [K -> V] : K \in SUBSET Names }

AgentConfigs(V) ==
    { [pluginType |-> t, pluginParameters |-> p] :
        t \in PluginTypes, p \in ParameterMaps(V) }

-----------------------------------------------------------------------------
(* mergeEnvVariables *)

\* A guard that never finds the key, so every declaration is written
HasParameter_Never(params, name) == FALSE

\* `baseConfig.pluginParameters[envVar.name]` is truthy: parameter values are
\* objects, so the lookup is truthy exactly when the key is set.
HasParameter(params, name) == name \in DOMAIN params

\* The entry inserted for a discovered declaration (lines 647-659)
NewParameter(envVar) ==
    [type |-> envVar.type, description |-> envVar.description]
    @@ (IF "required" \in DOMAIN envVar
            THEN [required |-> envVar.required] ELSE <<>>)
    @@ (IF "defaultValue" \in DOMAIN envVar /\ envVar.defaultValue # ""
            THEN [default |-> envVar.defaultValue] ELSE <<>>)

\* One iteration of `for (const envVar of discovered)`
MergeStep(params, envVar) ==
    IF ~HasParameter(params, envVar.name)
        THEN (envVar.name :> NewParameter(envVar)) @@ params
        ELSE params

RECURSIVE MergeLoop(_, _, _)
MergeLoop(params, list, k) ==
    IF k > Len(list) THEN params
    ELSE MergeLoop(MergeStep(params, list[k]), list, k + 1)

\* `{ ...existing.pluginParameters }`: a fresh object with the same entries
SpreadCopy(params) == [k \in DOMAIN params |-> params[k]]

\* An early return of the default configuration when there is no existing one
mergeEnvVariables_EarlyReturn(e, list) ==
    IF e = Null
        THEN [pluginType |-> DEFAULT_PLUGIN_TYPE, pluginParameters |-> <<>>]
        ELSE [pluginType |-> e.pluginType,
              pluginParameters |->
                  MergeLoop(SpreadCopy(e.pluginParameters), list, 1)]

mergeEnvVariables(e, list) ==
    LET baseConfig ==
            IF e # Null
                THEN [pluginType |-> e.pluginType,
                      pluginParameters |-> SpreadCopy(e.pluginParameters)]
                ELSE [pluginType |-> DEFAULT_PLUGIN_TYPE,
                      pluginParameters |-> <<>>]
    IN  [pluginType |-> baseConfig.pluginType,
         pluginParameters |-> MergeLoop(baseConfig.pluginParameters, list, 1)]

\* The loop writes to the caller's object
SharesParameters_Yes == TRUE

\* Line 641 copies the parameters into a fresh object, so the object the
\* loop writes to is not the caller's `existing.pluginParameters`.
SharesParameters == FALSE

\* The caller's `existing` object once mergeEnvVariables has returned
ExistingAfterMerge(e, list) ==
    IF e # Null /\ SharesParameters
        THEN [e EXCEPT !.pluginParameters =
                            mergeEnvVariables(e, list).pluginParameters]
        ELSE e

-----------------------------------------------------------------------------
(* The uniqueEnvVars filter of processRepository *)

\* findLastIndex in place of findIndex
FindIndex_Last(self, name) ==
    CHOOSE i \in 1..Len(self) :
        /\ self[i].name = name
        /\ \A j \in (i + 1)..Len(self) : self[j].name # name

\* self.findIndex((e) => e.name === name): the first index holding the name
FindIndex(self, name) ==
    CHOOSE i \in 1..Len(self) :
        /\ self[i].name = name
        /\ \A j \in 1..(i - 1) : self[j].name # name

RECURSIVE FilterFrom(_, _)
FilterFrom(self, index) ==
    IF index > Len(self) THEN <<>>
    ELSE (IF index = FindIndex(self, self[index].name)
              THEN <<self[index]>> ELSE <<>>)
         \o FilterFrom(self, index + 1)

UniqueEnvVars(allVars) == FilterFrom(allVars, 1)

-----------------------------------------------------------------------------
(* hasConfigurationChanged *)

\* The four comparisons of lines 728-733
ParameterDiffers(existingValue, value) ==
    \/ ~SameProp(existingValue, value, "type")
    \/ ~SameProp(existingValue, value, "description")
    \/ ~SameProp(existingValue, value, "required")
    \/ ~SameProp(existingValue, value, "default")

\* A change check that always reports a difference
hasConfigurationChanged_Always(e, u) == TRUE

\* The key-count comparison left out
KeyCountDiffers_Skipped(existingParams, updatedParams) == FALSE

\* Lines 717-721: the two key counts differ
KeyCountDiffers(existingParams, updatedParams) ==
    Cardinality(DOMAIN existingParams) # Cardinality(DOMAIN updatedParams)

hasConfigurationChanged(e, u) ==
    IF e = Null THEN TRUE
    ELSE LET existingParams == e.pluginParameters
             updatedParams  == u.pluginParameters
         IN  IF KeyCountDiffers(existingParams, updatedParams) THEN TRUE
             ELSE \E key \in DOMAIN updatedParams :
                     \/ ~HasParameter(existingParams, key)
                     \/ ParameterDiffers(existingParams[key],
                                         updatedParams[key])

-----------------------------------------------------------------------------
(* The version bump of updatePackageJson (lines 680-690)                   *)
(*                                                                         *)
(* A version string is the sequence of its components between the dots,    *)
(* as version.split(".") yields them; a component is a sequence of         *)
(* characters.  The empty sequence of components stands for a manifest     *)
(* with no version (split never yields it).                                *)

Digits == <<"0", "1", "2", "3", "4", "5", "6", "7", "8", "9">>
IsDigit(c) == \E d \in 1..10 : Digits[d] = c
DigitValue(c) == (CHOOSE d \in 1..10 : Digits[d] = c) - 1

\* Components a manifest's version is built from: "1", "9", "01", "x",
\* "3-b" (as in 1.2.3-beta), "-1" and the empty component (as in "1..3")
Components ==
    { <<"1">>, <<"9">>, <<"0", "1">>, <<"x">>, <<"3", "-", "b">>,
      <<"-", "1">>, <<>> }

NaN == [nan |-> TRUE, value |-> 0]

\* The decimal value of the longest prefix of digits of c, from position k
RECURSIVE DigitPrefix(_, _, _)
DigitPrefix(c, k, acc) ==
    IF k > Len(c) \/ ~IsDigit(c[k]) THEN acc
    ELSE DigitPrefix(c, k + 1, 10 * acc + DigitValue(c[k]))

\* parseInt(c): an optional sign, then the leading digits; NaN without one
parseInt(c) ==
    LET signed == Len(c) > 0 /\ c[1] \in {"-", "+"}
        from   == IF signed THEN 2 ELSE 1
    IN  IF from > Len(c) \/ ~IsDigit(c[from]) THEN NaN
        ELSE [nan |-> FALSE,
              value |-> IF signed /\ c[1] = "-"
                            THEN 0 - DigitPrefix(c, from, 0)
                            ELSE DigitPrefix(c, from, 0)]

\* `parseInt(part) || 0`: NaN and 0 are falsy
ParseIntOrZero(c) ==
    LET n == parseInt(c) IN IF n.nan \/ n.value = 0 THEN 0 ELSE n.value

\* The decimal digits of a natural number
RECURSIVE NatToString(_)
NatToString(n) ==
    IF n < 10 THEN <<Digits[n + 1]>>
    ELSE NatToString(n \div 10) \o <<Digits[(n % 10) + 1]>>

\* `${n}` for an integer n
NumberToString(n) ==
    IF n < 0 THEN <<"-">> \o NatToString(0 - n) ELSE NatToString(n)

\* `if (packageJson.version)`: a missing version and "" are falsy
VersionIsTruthy(v) == v # <<>> /\ v # << <<>> >>

\* packageJson.version after lines 681-690
BumpVersion(v) ==
    IF VersionIsTruthy(v) /\ Len(v) = 3
        THEN LET major == ParseIntOrZero(v[1])
                 minor == ParseIntOrZero(v[2])
                 patch == ParseIntOrZero(v[3])
             IN  <<NumberToString(major), NumberToString(minor),
                   NumberToString(patch + 1)>>
        ELSE v

-----------------------------------------------------------------------------
(* The response parsing of analyzeFileWithLLM (lines 551-585)              *)
(*                                                                         *)
(* The response text is a sequence of tokens: "[" and "]", ",", "d" (an    *)
(* object literal with a non-empty name and a type that is string, number  *)
(* or boolean), "v" (any other JSON value that holds no bracket: an object *)
(* literal without a name or of another type, a string, a number) and "w"  *)
(* (prose, which is not JSON).                                             *)

Tokens == {"[", "]", ",", "d", "v", "w"}

Scalar == [kind |-> "value", items |-> <<>>]
Declaration == [kind |-> "declaration", items |-> <<>>]
Array(items) == [kind |-> "array", items |-> items]
SyntaxError == [ok |-> FALSE, val |-> Scalar, next |-> 0]

\* JSON.parse, by recursive descent:
\*   value ::= "d" | "v" | "[" "]" | "[" value ("," value)* "]"
RECURSIVE ParseValue(_, _), ParseItems(_, _, _)
ParseValue(t, i) ==
    IF i > Len(t) THEN SyntaxError
    ELSE IF t[i] = "d"
        THEN [ok |-> TRUE, val |-> Declaration, next |-> i + 1]
    ELSE IF t[i] = "v" THEN [ok |-> TRUE, val |-> Scalar, next |-> i + 1]
    ELSE IF t[i] = "["
        THEN IF i + 1 <= Len(t) /\ t[i + 1] = "]"
                 THEN [ok |-> TRUE, val |-> Array(<<>>), next |-> i + 2]
                 ELSE ParseItems(t, i + 1, <<>>)
    ELSE SyntaxError

ParseItems(t, i, acc) ==
    LET r == ParseValue(t, i) IN
    IF ~r.ok \/ r.next > Len(t) THEN SyntaxError
    ELSE IF t[r.next] = "]"
        THEN [ok |-> TRUE, val |-> Array(Append(acc, r.val)),
              next |-> r.next + 1]
    ELSE IF t[r.next] = ","
        THEN ParseItems(t, r.next + 1, Append(acc, r.val))
    ELSE SyntaxError

\* JSON.parse(t): the value, or ok = FALSE for a thrown SyntaxError
JSONParse(t) ==
    LET r == ParseValue(t, 1) IN
    IF r.ok /\ r.next = Len(t) + 1 THEN r ELSE SyntaxError

\* The first "[" of a match of the expression: the leftmost one
MatchStart(t) ==
    CHOOSE i \in 1..Len(t) : t[i] = "[" /\ \A j \in 1..(i - 1) : t[j] # "["

\* A lazy quantifier: the match ends at the first "]" after its start
MatchEnd_Lazy(t) ==
    CHOOSE i \in (MatchStart(t) + 1)..Len(t) :
        t[i] = "]" /\ \A j \in (MatchStart(t) + 1)..(i - 1) : t[j] # "]"

\* The last "]" of the match: [\s\S]* is greedy, so the rightmost one
MatchEnd(t) ==
    CHOOSE i \in (MatchStart(t) + 1)..Len(t) :
        t[i] = "]" /\ \A j \in (i + 1)..Len(t) : t[j] # "]"

\* responseText.match(/\[[\s\S]*\]/) finds something
HasMatch(t) ==
    \E i, j \in 1..Len(t) : i < j /\ t[i] = "[" /\ t[j] = "]"

\* jsonText of lines 556-562
JsonText(t) ==
    IF HasMatch(t) THEN SubSeq(t, MatchStart(t), MatchEnd(t)) ELSE t

\* The body of the inner try (lines 554-565): the array, [] for JSON that is
\* no array, or the SyntaxError of JSON.parse
TryParse(t) ==
    LET r == JSONParse(JsonText(t)) IN
    IF ~r.ok THEN [threw |-> TRUE, value |-> <<>>]
    ELSE [threw |-> FALSE,
          value |-> IF r.val.kind = "array" THEN r.val.items ELSE <<>>]

\* The handler left out: the SyntaxError leaves the function
CatchParseError_Rethrow(t) == [threw |-> TRUE, value |-> <<>>]

\* The inner catch (lines 566-585): every branch returns []
CatchParseError(t) == [threw |-> FALSE, value |-> <<>>]

\* Lines 551-585 for the trimmed response text t
ParseResponse(t) ==
    IF t = <<>> THEN [threw |-> FALSE, value |-> <<>>]
    ELSE IF TryParse(t).threw THEN CatchParseError(t)
    ELSE TryParse(t)

-----------------------------------------------------------------------------
(* scanFilesForEnvVars (lines 447-473)                                     *)
(*                                                                         *)
(* A name is the sequence of its characters, a path the sequence of the    *)
(* names below the root, and a directory the sequence of its entries in    *)
(* the order readdir yields them.  An entry is a file or a directory; a    *)
(* directory that is not readable makes readdir throw.                     *)

\* const extensions (line 449)
extensions ==
    << <<".", "t", "s">>, <<".", "j", "s">>, <<".", "t", "s", "x">>,
       <<".", "j", "s", "x">>, <<".", "m", "d">>,
       <<".", "j", "s", "o", "n">> >>

\* The directories of line 461 that are not entered
SkippedDirs ==
    { <<"n", "o", "d", "e", "_", "m", "o", "d", "u", "l", "e", "s">>,
      <<".", "g", "i", "t">>, <<"d", "i", "s", "t">>,
      <<"b", "u", "i", "l", "d">>, <<".", "n", "e", "x", "t">> }

\* A test for the extension anywhere in the name
EndsWith_Includes(item, ext) ==
    \E k \in 1..Len(item) :
        /\ k + Len(ext) - 1 <= Len(item)
        /\ SubSeq(item, k, k + Len(ext) - 1) = ext

\* item.endsWith(ext) (line 465)
EndsWith(item, ext) ==
    /\ Len(ext) <= Len(item)
    /\ SubSeq(item, Len(item) - Len(ext) + 1, Len(item)) = ext

\* extensions.some((ext) => item.endsWith(ext))
HasExtension(item) ==
    \E k \in 1..Len(extensions) : EndsWith(item, extensions[k])

\* Every directory is entered
IsSkippedDir_Never(item) == FALSE

\* [...].includes(item) (lines 460-462)
IsSkippedDir(item) == item \in SkippedDirs

File(n) == [name |-> n, kind |-> "file", items |-> <<>>, readable |-> TRUE]
Dir(n, items, readable) ==
    [name |-> n, kind |-> "dir", items |-> items, readable |-> readable]

\* What walkDir has done: it threw, or it pushed these paths
Pushed(paths) == [threw |-> FALSE, files |-> paths]
WalkThrew == [threw |-> TRUE, files |-> <<>>]

\* walkDir without the readdir: the entries from position k on, in order.
\* An error of the readdir of a directory below leaves the loop and every
\* walkDir above it.
RECURSIVE WalkItems(_, _, _)
WalkItems(items, dir, k) ==
    IF k > Len(items) THEN Pushed(<<>>)
    ELSE LET item == items[k]
             fullPath == Append(dir, item.name)
             this ==
                 IF item.kind = "dir"
                    THEN IF ~IsSkippedDir(item.name)
                            THEN IF item.readable
                                    THEN WalkItems(item.items, fullPath, 1)
                                    ELSE WalkThrew
                            ELSE Pushed(<<>>)
                    ELSE IF HasExtension(item.name)
                            THEN Pushed(<<fullPath>>)
                            ELSE Pushed(<<>>)
         IN  IF this.threw THEN WalkThrew
             ELSE LET rest == WalkItems(items, dir, k + 1)
                  IN  IF rest.threw THEN WalkThrew
                      ELSE Pushed(this.files \o rest.files)

\* scanFilesForEnvVars(repoPath) for a readable root with these entries: the
\* list of paths, or the error of walkDir
scanFilesForEnvVars(root) == WalkItems(root, <<>>, 1)

\* The names of the files and of the directories of the trees
FileNames ==
    { <<"a", ".", "t", "s">>, <<"a", ".", "t", "s", "x">>,
      <<"a", ".", "j", "s", "x">>, <<"a", ".", "m", "d">>,
      <<"a", ".", "j", "s", "o", "n">>, <<"a", ".", "t", "x", "t">>,
      <<".", "t", "s">>, <<"a", ".", "t", "s", ".", "b">>,
      <<"d", "i", "s", "t">> }

DirNames ==
    SkippedDirs \cup { <<"s", "r", "c">>, <<"a", ".", "j", "s">>,
                       <<"D", "i", "s", "t">> }

\* The entries of a directory of files
LeafItems ==
    { <<>>,
      <<File(<<"a", ".", "t", "s">>)>>,
      <<File(<<"a", ".", "t", "s">>), File(<<"a", ".", "t", "x", "t">>)>> }

\* Directories of files, readable or not
InnerDirs ==
    { Dir(n, items, TRUE) : n \in DirNames, items \in LeafItems }
    \cup { Dir(n, <<File(<<"a", ".", "t", "s">>)>>, FALSE) : n \in DirNames }

\* Directories that hold one directory of files
OuterDirs ==
    { Dir(n, <<d>>, TRUE) :
        n \in { <<"s", "r", "c">>, <<"d", "i", "s", "t">> },
        d \in { Dir(<<"s", "r", "c">>, <<File(<<"a", ".", "t", "s">>)>>, TRUE),
                Dir(<<"b", "u", "i", "l", "d">>,
                    <<File(<<"a", ".", "t", "s">>)>>, TRUE),
                Dir(<<"s", "r", "c">>, <<File(<<"a", ".", "t", "s">>)>>,
                    FALSE) } }

RootEntries == { File(n) : n \in FileNames } \cup InnerDirs \cup OuterDirs

\* A directory has no two entries of the same name
DistinctNames(items) ==
    \A i \in 1..Len(items), j \in 1..Len(items) :
        items[i].name = items[j].name => i = j

\* The working trees that are scanned
Trees ==
    { t \in SeqsUpTo(RootEntries, MaxEntries) : DistinctNames(t) }

NoScan == [threw |-> FALSE, files |-> <<>>]

ScanIdle == tree = <<>> /\ treeAfter = <<>> /\ scan = NoScan /\ spc = "idle"

MigrateIdle ==
    /\ reposToMigrate = <<>>
    /\ migIndex = 0
    /\ migpc = "idle"
    /\ thrown = FALSE
    /\ tempDirs = {}
    /\ attempted = <<>>
    /\ outcomes = <<>>
    /\ warned = {}

RenameIdle ==
    /\ orgRepos = <<>>
    /\ renIndex = 0
    /\ renpc = "idle"
    /\ fileData = Null
    /\ writes = <<>>

RerunIdle ==
    /\ packageJson = <<>>
    /\ extraction = <<>>
    /\ processed = <<>>
    /\ rpc = "idle"

ScriptsIdle == MigrateIdle /\ RenameIdle /\ RerunIdle

-----------------------------------------------------------------------------
(* The three functions called on their own: a caller draws the arguments   *)
(* and applies them.                                                       *)

NoConfig == [pluginType |-> "", pluginParameters |-> <<>>]

VersionIdle == version = <<>> /\ newVersion = <<>> /\ vpc = "idle"

NoResult == [threw |-> FALSE, value |-> <<>>]

ParseIdle == responseText = <<>> /\ parsed = NoResult /\ ppc = "idle"

\* process.env.X: not set, or a string
Unset == [set |-> FALSE, value |-> ""]
EnvValue(s) == [set |-> TRUE, value |-> s]

\* A string, where the code has `string | null`
Str(s) == [str |-> s]

\* What listBranches answers: an error, or the branches' names
Listing(ok, names) == [ok |-> ok, names |-> names]

\* No write to package.json yet
NoManifest == [writes |-> 0, agentConfig |-> NoConfig,
               before |-> <<>>, after |-> <<>>]

\* Neither updatePackageJson nor commitChanges was called
NotPersisted == [update |-> "none", commit |-> "none"]

PackageIdle ==
    /\ listing = Listing(FALSE, {})
    /\ clonedBranch = Null
    /\ packageUpdated = FALSE
    /\ committed = FALSE
    /\ manifest = NoManifest
    /\ report = "none"
    /\ persisted = NotPersisted

DriverIdle ==
    /\ runpc = "idle"
    /\ githubToken = Unset
    /\ openaiApiKey = Unset
    /\ testMode = FALSE
    /\ workingTrees = {}
    /\ repositories = <<>>
    /\ settled = "no"
    /\ active = {}
    /\ classifications = <<>>
    /\ PackageIdle
    /\ repo = 0
    /\ pc = "idle"
    /\ currentConfig = Null
    /\ files = <<>>
    /\ response = <<>>
    /\ iLoop = 0
    /\ batch = <<>>
    /\ pending = {}
    /\ results = <<>>
    /\ calls = <<>>
    /\ batches = <<>>
    /\ delays = 0
    /\ lastBatch = "none"
    /\ overtaken = FALSE
    /\ allEnvVars = <<>>
    /\ uniqueEnvVars = <<>>
    /\ updatedConfig = NoConfig
    /\ error = "none"

MergeIdle ==
    /\ updated = NoConfig
    /\ merged = NoConfig
    /\ remerged = NoConfig
    /\ unique = <<>>
    /\ mergedUnique = NoConfig
    /\ changed = FALSE
    /\ existingAfter = Null

InitMerge ==
    /\ existing \in AgentConfigs(ExistingValues) \cup {Null}
    /\ discovered \in SeqsUpTo(EnvVariables, MaxDiscovered)
    /\ mpc = "start"
    /\ MergeIdle
    /\ VersionIdle
    /\ ParseIdle
    /\ DriverIdle
    /\ ScanIdle
    /\ ScriptsIdle

CallMerge ==
    /\ mpc = "start"
    /\ merged' = mergeEnvVariables(existing, discovered)
    /\ existingAfter' = ExistingAfterMerge(existing, discovered)
    /\ mpc' = "merged"
    /\ UNCHANGED <<existing, discovered, updated, remerged, unique,
                   mergedUnique, changed, versionVars, parseVars, driverVars, scanVars,
                   scriptVars>>

CallMergeAgain ==
    /\ mpc = "merged"
    /\ remerged' = mergeEnvVariables(merged, discovered)
    /\ mpc' = "remerged"
    /\ UNCHANGED <<existing, discovered, updated, merged, unique,
                   mergedUnique, changed, existingAfter, versionVars,
                   parseVars, driverVars, scanVars,
                   scriptVars>>

CallFilter ==
    /\ mpc = "remerged"
    /\ unique' = UniqueEnvVars(discovered)
    /\ mpc' = "filtered"
    /\ UNCHANGED <<existing, discovered, updated, merged, remerged,
                   mergedUnique, changed, existingAfter, versionVars,
                   parseVars, driverVars, scanVars,
                   scriptVars>>

CallMergeUnique ==
    /\ mpc = "filtered"
    /\ mergedUnique' = mergeEnvVariables(existing, unique)
    /\ mpc' = "done"
    /\ UNCHANGED <<existing, discovered, updated, merged, remerged, unique,
                   changed, existingAfter, versionVars, parseVars, driverVars, scanVars,
                   scriptVars>>

\* processRepository, lines 854-861: the change check is given the object
\* that was passed to mergeEnvVariables, as it is after that call, and the
\* configuration that call returned
CallHasChangedAfterMerge ==
    /\ mpc = "done"
    /\ changed' = hasConfigurationChanged(existingAfter, merged)
    /\ mpc' = "compared"
    /\ UNCHANGED <<existing, discovered, updated, merged, remerged, unique,
                   mergedUnique, existingAfter, versionVars, parseVars,
                   driverVars, scanVars, scriptVars>>

NextMerge ==
    \/ CallMerge
    \/ CallMergeAgain
    \/ CallFilter
    \/ CallMergeUnique
    \/ CallHasChangedAfterMerge

SpecMerge == InitMerge /\ [][NextMerge]_vars

InitChange ==
    /\ existing \in AgentConfigs(ParameterValues) \cup {Null}
    /\ updated \in AgentConfigs(ParameterValues)
    /\ discovered = <<>>
    /\ merged = NoConfig
    /\ remerged = NoConfig
    /\ unique = <<>>
    /\ mergedUnique = NoConfig
    /\ changed = FALSE
    /\ existingAfter = Null
    /\ mpc = "start"
    /\ VersionIdle
    /\ ParseIdle
    /\ DriverIdle
    /\ ScanIdle
    /\ ScriptsIdle

CallHasChanged ==
    /\ mpc = "start"
    /\ changed' = hasConfigurationChanged(existing, updated)
    /\ mpc' = "compared"
    /\ UNCHANGED <<existing, discovered, updated, merged, remerged, unique,
                   mergedUnique, existingAfter, versionVars, parseVars, driverVars, scanVars,
                   scriptVars>>

NextChange == CallHasChanged

SpecChange == InitChange /\ [][NextChange]_vars

InitVersion ==
    /\ version \in SeqsUpTo(Components, MaxParts)
    /\ newVersion = <<>>
    /\ vpc = "start"
    /\ existing = Null
    /\ discovered = <<>>
    /\ mpc = "idle"
    /\ MergeIdle
    /\ ParseIdle
    /\ DriverIdle
    /\ ScanIdle
    /\ ScriptsIdle

CallBumpVersion ==
    /\ vpc = "start"
    /\ newVersion' = BumpVersion(version)
    /\ vpc' = "bumped"
    /\ UNCHANGED <<version, mergeVars, parseVars, driverVars, scanVars,
                   scriptVars>>

NextVersion == CallBumpVersion

SpecVersion == InitVersion /\ [][NextVersion]_vars

InitParse ==
    /\ responseText \in SeqsUpTo(Tokens, MaxResponse)
    /\ parsed = NoResult
    /\ ppc = "start"
    /\ existing = Null
    /\ discovered = <<>>
    /\ mpc = "idle"
    /\ MergeIdle
    /\ VersionIdle
    /\ DriverIdle
    /\ ScanIdle
    /\ ScriptsIdle

CallParseResponse ==
    /\ ppc = "start"
    /\ parsed' = ParseResponse(responseText)
    /\ ppc' = "parsed"
    /\ UNCHANGED <<responseText, mergeVars, versionVars, driverVars, scanVars,
                   scriptVars>>

NextParse == CallParseResponse

SpecParse == InitParse /\ [][NextParse]_vars

-----------------------------------------------------------------------------
(* scanFilesForEnvVars called on its own                                   *)

InitScan ==
    /\ tree \in Trees
    /\ treeAfter = <<>>
    /\ scan = NoScan
    /\ spc = "start"
    /\ existing = Null
    /\ discovered = <<>>
    /\ mpc = "idle"
    /\ MergeIdle
    /\ VersionIdle
    /\ ParseIdle
    /\ DriverIdle
    /\ ScriptsIdle

\* The traversal only calls readdir and stat: it leaves the tree as it is
CallScan ==
    /\ spc = "start"
    /\ scan' = scanFilesForEnvVars(tree)
    /\ treeAfter' = tree
    /\ spc' = "done"
    /\ UNCHANGED <<tree, mergeVars, versionVars, parseVars, driverVars,
                   scriptVars>>

NextScan == CallScan

SpecScan == InitScan /\ [][NextScan]_vars

-----------------------------------------------------------------------------
(* run (lines 927-1001) and processRepository (lines 784-925)             *)

\* The batch width of `i += 5` and `files.slice(i, i + 5)`
BatchSize == 5

Min(a, b) == IF a < b THEN a ELSE b
Range(q) == { q[k] : k \in 1..Len(q) }

\* What the analysis of one artifact meets: the file cannot be read, it is
\* longer than 50000 characters, the capability's call fails, its response
\* is prose that holds no array, or its response is an array of
\* declarations.
Ok(list) == [kind |-> "ok", vars |-> list]
Failure(kind) == [kind |-> kind, vars |-> <<>>]

VarA1 == [name |-> "A", type |-> "string", description |-> "d1"]
VarA2 == [name |-> "A", type |-> "number", description |-> "d2",
          required |-> TRUE, defaultValue |-> "v"]
VarB1 == [name |-> "B", type |-> "string", description |-> "d1"]

FailureKinds == {"readError", "apiError", "unparseable"}

Responses ==
    { Ok(<<>>), Ok(<<VarA1>>), Ok(<<VarA2, VarB1>>), Failure("tooLarge") }
    \cup { Failure(k) : k \in FailureKinds }

\* The responses drawn independently for every artifact of a short list
ShortResponses == { Ok(<<VarA1>>), Ok(<<VarA2, VarB1>>), Failure("apiError") }

\* A long artifact list meets two responses in turn
Alternating(n, odd, even) ==
    [f \in 1..n |-> IF f % 2 = 1 THEN odd ELSE even]

\* The manifests a package may carry: no agentConfig, or one that declares A
CurrentConfigs ==
    { Null,
      [pluginType |-> "elizaos:plugin:2.0.0",
       pluginParameters |-> ("A" :> [type |-> "string",
                                     description |-> "d0"])] }

\* The outer catch left out: the error leaves analyzeFileWithLLM
CatchAnalyzeError_Rethrow(r) == [threw |-> TRUE, value |-> <<>>]

\* The outer catch (lines 586-595): warn and return []
CatchAnalyzeError(r) == [threw |-> FALSE, value |-> <<>>]

\* analyzeFileWithLLM (lines 475-596) for an artifact that meets r
analyzeFileWithLLM(r) ==
    IF r.kind = "readError" THEN CatchAnalyzeError(r)
    ELSE IF r.kind = "tooLarge" THEN [threw |-> FALSE, value |-> <<>>]
    ELSE IF r.kind = "apiError" THEN CatchAnalyzeError(r)
    ELSE IF r.kind = "unparseable" THEN ParseResponse(<<"w">>)
    ELSE [threw |-> FALSE, value |-> r.vars]

\* A slice one artifact short
BatchOf_Short(list, from) ==
    SubSeq(list, from + 1, Min(from + BatchSize - 1, Len(list)))

\* files.slice(i, i + 5)
BatchOf(list, from) ==
    SubSeq(list, from + 1, Min(from + BatchSize, Len(list)))

\* The await resumes as soon as one call of the batch has resolved
AllResolved_Any(waiting, current) == waiting # Range(current)

\* `await Promise.all(batchPromises)` resumes: no call of the batch is
\* unresolved
AllResolved(waiting, current) == waiting = {}

\* A callback that pushes its own result when its call resolves
PushOnResolve_Yes == TRUE

\* The callbacks of batch.map only return their result (lines 822-824);
\* the results are pushed after the await, in the order of the batch
\* (lines 827-829).
PushOnResolve == FALSE

\* batchResults flattened in the order of the batch; a call that has not
\* resolved has no result
RECURSIVE Flatten(_, _, _)
Flatten(current, done, k) ==
    IF k > Len(current) THEN <<>>
    ELSE (IF current[k] \in DOMAIN done THEN done[current[k]] ELSE <<>>)
         \o Flatten(current, done, k + 1)

\* A long artifact list meets one of these pairs of responses in turn
LongResponses ==
    { <<Ok(<<VarA1>>), Ok(<<VarA2, VarB1>>)>>,
      <<Failure("readError"), Ok(<<VarA1>>)>>,
      <<Failure("unparseable"), Ok(<<VarA2, VarB1>>)>>,
      <<Failure("tooLarge"), Ok(<<>>)>>,
      <<Failure("apiError"), Failure("apiError")>> }

\* The flag set to false
TEST_MODE_Off == FALSE

\* `private readonly TEST_MODE = true` (line 360)
TEST_MODE == TRUE

\* The values the two credentials may have in the environment
EnvValues == { Unset, EnvValue(""), EnvValue("token") }

\* A constructor that does not test the credential
Truthy_Always(v) == TRUE

\* `!githubToken` is false: the variable is set and is not the empty string
Truthy(v) == v.set /\ v.value # ""

\* The repositories of the organisation: n plugins, with the registry
\* second in the list
PluginNames == <<"plugin-a", "plugin-b", "plugin-c", "plugin-d">>
RepoList(n) ==
    IF n = 0 THEN <<"registry">>
    ELSE [k \in 1..(n + 1) |->
            IF k = 2 THEN "registry"
            ELSE PluginNames[IF k < 2 THEN k ELSE k - 1]]
RepoLists == { <<>>, RepoList(0), RepoList(MaxRepos) }

\* repositories.filter((repo) => repo !== "registry") (line 944)
IsNotRegistry(r) == r # "registry"
FilteredRepos(list) == SelectSeq(list, IsNotRegistry)

\* The answers of listBranches that are tried
Listings ==
    { Listing(FALSE, {}),
      Listing(TRUE, {}),
      Listing(TRUE, {"main"}),
      Listing(TRUE, {"main", "1.0", "v1"}),
      Listing(TRUE, {"main", "1.x"}) }

\* A branch gate that takes every branch of the 1 series
IsBranch1x_Prefix(name) == name \in {"1.x", "1.0"}

\* branch.name === "1.x" (line 413)
IsBranch1x(name) == name = "1.x"

\* get1xBranchName (lines 406-422): the name of the branch found, or null;
\* an error of the listing is caught and gives null
get1xBranchName(l) ==
    IF ~l.ok THEN Null
    ELSE IF \E b \in l.names : IsBranch1x(b)
         THEN Str(CHOOSE b \in l.names : IsBranch1x(b))
         ELSE Null

\* What package.json holds as version when updatePackageJson reads it
DiskVersions == { <<>>, << <<"1">>, <<"9">>, <<"9">> >> }

\* updatePackageJson (lines 666-704): the file is missing, cannot be read,
\* cannot be written, or is written
UpdateOutcomes == {"missing", "readError", "writeError", "written"}

\* commitChanges (lines 741-782): git config fails, the tree is clean, the
\* commit fails, the push fails, or all is pushed
CommitOutcomes == {"configError", "clean", "commitError", "pushError",
                   "pushed"}

\* The message of lines 894-906
ReportOf(isCommitted, isUpdated) ==
    IF isCommitted THEN "committed"
    ELSE IF isUpdated THEN "notCommitted"
    ELSE "notUpdated"

\* The artifacts of repository r whose call has not resolved
Outstanding(r) == { p[2] : p \in { q \in pending : q[1] = r } }

\* One more terminal spinner message for repository r
Classify(r) == [classifications EXCEPT ![r] = @ + 1]

BatchIdle ==
    /\ currentConfig = Null
    /\ files = <<>>
    /\ response = <<>>
    /\ iLoop = 0
    /\ batch = <<>>
    /\ results = <<>>
    /\ calls = <<>>
    /\ batches = <<>>
    /\ delays = 0
    /\ lastBatch = "none"
    /\ overtaken = FALSE
    /\ allEnvVars = <<>>
    /\ uniqueEnvVars = <<>>
    /\ updatedConfig = NoConfig
    /\ error = "none"

\* main (line 1004) is about to construct the scanner
InitDriver ==
    /\ runpc = "new"
    /\ githubToken \in EnvValues
    /\ openaiApiKey \in EnvValues
    /\ workingTrees = {}
    /\ repositories = <<>>
    /\ settled = "no"
    /\ active = {}
    /\ classifications = <<>>
    /\ PackageIdle
    /\ repo = 0
    /\ pc = "idle"
    /\ pending = {}
    /\ BatchIdle

Init ==
    /\ InitDriver
    /\ testMode = TEST_MODE
    /\ existing = Null
    /\ discovered = <<>>
    /\ mpc = "idle"
    /\ MergeIdle
    /\ VersionIdle
    /\ ParseIdle
    /\ ScanIdle
    /\ ScriptsIdle

\* The scanner with TEST_MODE as it is in the source, or set to false as
\* the README describes
InitAnyMode ==
    /\ InitDriver
    /\ testMode \in {TEST_MODE, FALSE}
    /\ existing = Null
    /\ discovered = <<>>
    /\ mpc = "idle"
    /\ MergeIdle
    /\ VersionIdle
    /\ ParseIdle
    /\ ScanIdle
    /\ ScriptsIdle

notDriverVars == <<mergeVars, versionVars, parseVars, scanVars, scriptVars>>

batchVars == <<currentConfig, files, response, iLoop, batch, results, calls,
               batches, delays, lastBatch, overtaken, allEnvVars, uniqueEnvVars, updatedConfig>>

\* The constructor (lines 362-382): a credential that is missing ends the
\* process with exit code 1
Construct ==
    /\ runpc = "new"
    /\ runpc' = IF Truthy(githubToken) /\ Truthy(openaiApiKey)
                   THEN "enumerate" ELSE "exit1"
    /\ UNCHANGED <<githubToken, openaiApiKey, testMode, workingTrees,
                   repositories, settled, active,
                   classifications, packageVars, repo, pc, pending,
                   batchVars, error, notDriverVars>>

\* run, lines 935-944: the temp directory is cleaned and the repositories
\* are listed; an error of either is fatal (lines 992-994)
GetRepositories ==
    /\ runpc = "enumerate"
    /\ \E ok \in BOOLEAN, list \in RepoLists :
          /\ runpc' = IF ok THEN "loop" ELSE "exit1"
          /\ repositories' = IF ok THEN list ELSE <<>>
          /\ classifications' =
                IF ok THEN [r \in 1..Len(FilteredRepos(list)) |-> 0]
                ELSE <<>>
    /\ UNCHANGED <<githubToken, openaiApiKey, testMode, workingTrees,
                   settled, active, packageVars, repo, pc, pending,
                   batchVars, error, notDriverVars>>

\* A timer of setTimeout has fired (lines 834, 969 and 987)
Waited(last) == IF last = "issued" THEN "delayed" ELSE last

\* The loops of run without their timers
RepositoryDelay_None(last) == last

\* The delay after a repository: line 969 with TEST_MODE, where it follows
\* a processRepository that returned false, and line 987 without
RepositoryDelay(last) == Waited(last)

runInputs == <<runpc, githubToken, openaiApiKey, testMode, workingTrees,
               repositories>>

\* The loop over filteredRepos goes on without awaiting processRepository
LoopTakesNext_NoAwait(at, how) == TRUE

\* run, lines 962-970: the loop takes the next repository once the awaited
\* processRepository has returned, and in TEST_MODE only if it returned
\* false
LoopTakesNext(at, how) ==
    \/ at = 0
    \/ how = "false"
    \/ how = "true" /\ ~testMode

\* The loop is left: no repository remains, or TEST_MODE breaks at line 966
LoopEnds(at, how, n) ==
    \/ at = n /\ (at = 0 \/ how \in {"false", "true"})
    \/ testMode /\ how = "true"

\* run, lines 962-970: after the delay of line 969 processRepository is
\* called for the next repository
NextRepository ==
    /\ runpc = "loop"
    /\ LoopTakesNext(repo, settled)
    /\ repo < Len(FilteredRepos(repositories))
    /\ repo' = repo + 1
    /\ pc' = "start"
    /\ settled' = "no"
    /\ active' = active \cup {repo'}
    /\ persisted' = NotPersisted
    /\ listing' = Listing(FALSE, {})
    /\ clonedBranch' = Null
    /\ packageUpdated' = FALSE
    /\ committed' = FALSE
    /\ manifest' = NoManifest
    /\ report' = "none"
    /\ currentConfig' = Null
    /\ files' = <<>>
    /\ response' = <<>>
    /\ iLoop' = 0
    /\ batch' = <<>>
    /\ results' = <<>>
    /\ calls' = <<>>
    /\ batches' = <<>>
    /\ delays' = 0
    /\ lastBatch' = IF repo > 0 THEN RepositoryDelay(lastBatch)
                               ELSE lastBatch
    /\ overtaken' = FALSE
    /\ allEnvVars' = <<>>
    /\ uniqueEnvVars' = <<>>
    /\ updatedConfig' = NoConfig
    /\ error' = "none"
    /\ UNCHANGED <<runInputs, classifications, pending, notDriverVars>>

\* run, lines 972-991 and 995-1000: the loop is left, the temp directory is
\* removed; an error of that removal rejects main (lines 1009-1012)
FinishRun ==
    /\ runpc = "loop"
    /\ settled # "threw"
    /\ LoopEnds(repo, settled, Len(FilteredRepos(repositories)))
    /\ \E removed \in BOOLEAN :
          /\ runpc' = IF removed THEN "completed" ELSE "exit1"
          /\ workingTrees' = IF removed THEN {} ELSE workingTrees
    /\ UNCHANGED <<githubToken, openaiApiKey, testMode, repositories,
                   settled, active, classifications, packageVars, repo, pc,
                   pending, batchVars, error, notDriverVars>>

\* run, lines 992-994: processRepository rejected; the error is fatal
AbortRun ==
    /\ runpc = "loop"
    /\ settled = "threw"
    /\ runpc' = "exit1"
    /\ UNCHANGED <<githubToken, openaiApiKey, testMode, workingTrees,
                   repositories, settled, active,
                   classifications, packageVars, repo, pc, pending,
                   batchVars, error, notDriverVars>>

\* Lines 788-797: only a repository with a 1.x branch is processed
CheckBranch ==
    /\ pc = "start"
    /\ \E l \in Listings :
          /\ listing' = l
          /\ IF get1xBranchName(l) = Null
                THEN /\ pc' = "noBranch"
                     /\ settled' = "false"
                     /\ active' = active \ {repo}
                     /\ classifications' = Classify(repo)
                ELSE /\ pc' = "clone"
                     /\ UNCHANGED <<settled, active, classifications>>
    /\ UNCHANGED <<runInputs, clonedBranch, packageUpdated, committed,
                   manifest, report, persisted, repo, pending, batchVars,
                   error, notDriverVars>>

\* Line 800: cloneRepository (lines 424-445) clones the branch and returns
\* the path, or throws
CloneRepository ==
    /\ pc = "clone"
    /\ \E cloned \in BOOLEAN, left \in BOOLEAN :
          /\ cloned => left
          /\ workingTrees' = IF left THEN workingTrees \cup {repo}
                                     ELSE workingTrees
          /\ IF cloned
                THEN /\ pc' = "config"
                     /\ clonedBranch' = get1xBranchName(listing)
                     /\ UNCHANGED <<error, classifications>>
                ELSE /\ pc' = "failed"
                     /\ error' = "clone"
                     /\ classifications' = Classify(repo)
                     /\ UNCHANGED clonedBranch
    /\ UNCHANGED <<runpc, githubToken, openaiApiKey, testMode, repositories,
                   settled, active, listing, packageUpdated, committed,
                   manifest, report, persisted, repo, pending, batchVars,
                   notDriverVars>>

\* Line 803: getCurrentAgentConfig (lines 598-612); a manifest that is
\* missing or cannot be read gives null
GetCurrentAgentConfig ==
    /\ pc = "config"
    /\ \E c \in CurrentConfigs : currentConfig' = c
    /\ pc' = "scan"
    /\ UNCHANGED <<runInputs, settled, active, classifications, packageVars, repo,
                   pending, files, response, iLoop, batch, results, calls,
                   batches, delays, lastBatch, overtaken, allEnvVars, uniqueEnvVars,
                   updatedConfig, error, notDriverVars>>

\* Lines 806-808: scanFilesForEnvVars throws, or returns the artifact list;
\* with the list comes what each artifact's analysis will meet
ScanFiles ==
    /\ pc = "scan"
    /\ \/ /\ pc' = "failed"
          /\ error' = "traversal"
          /\ classifications' = Classify(repo)
          /\ UNCHANGED <<files, calls, response, iLoop, allEnvVars>>
       \/ /\ \E n \in 0..MaxLongFiles :
                /\ files' = [f \in 1..n |-> f]
                /\ calls' = [f \in 1..n |-> 0]
                /\ IF n <= MaxFiles
                      THEN response' \in [1..n -> ShortResponses]
                      ELSE \E pair \in LongResponses :
                              response' = Alternating(n, pair[1], pair[2])
          /\ iLoop' = 0
          /\ allEnvVars' = <<>>
          /\ pc' = "loop"
          /\ UNCHANGED <<error, classifications>>
    /\ UNCHANGED <<runInputs, settled, active, packageVars, repo, pending,
                   currentConfig, batch, results, batches, delays, lastBatch, overtaken,
                   uniqueEnvVars, updatedConfig, notDriverVars>>

\* Lines 813-824: the loop test holds; the batch is sliced and every
\* artifact of it is passed to analyzeFileWithLLM
StartBatch ==
    /\ pc = "loop"
    /\ iLoop < Len(files)
    /\ batch' = BatchOf(files, iLoop)
    /\ pending' = pending \cup { <<repo, f>> : f \in Range(batch') }
    /\ calls' = [f \in DOMAIN calls |->
                    IF f \in Range(batch') THEN calls[f] + 1 ELSE calls[f]]
    /\ batches' = Append(batches, batch')
    /\ lastBatch' = "issued"
    /\ delays' = delays
    /\ pc' = "await"
    /\ UNCHANGED <<runInputs, settled, active, classifications, packageVars, repo,
                   currentConfig, files, response, iLoop, results,
                   overtaken, allEnvVars, uniqueEnvVars, updatedConfig,
                   error, notDriverVars>>

\* One call of the batch settles, in any order.  A call that threw would
\* reject Promise.all and take processRepository to its catch (line 911).
ResolveCall ==
    /\ pc = "await"
    /\ \E f \in Outstanding(repo) :
          LET r == analyzeFileWithLLM(response[f]) IN
          /\ pending' = pending \ {<<repo, f>>}
          /\ overtaken' = (overtaken \/ \E g \in Outstanding(repo) : g < f)
          /\ IF r.threw
                THEN /\ pc' = "failed"
                     /\ error' = "extraction"
                     /\ classifications' = Classify(repo)
                     /\ UNCHANGED <<results, allEnvVars>>
                ELSE /\ results' = (f :> r.value) @@ results
                     /\ allEnvVars' = IF PushOnResolve
                                          THEN allEnvVars \o r.value
                                          ELSE allEnvVars
                     /\ UNCHANGED <<pc, error, classifications>>
    /\ UNCHANGED <<runInputs, settled, active, packageVars, repo, currentConfig,
                   files, response, iLoop, batch, calls, batches, delays, lastBatch,
                   uniqueEnvVars, updatedConfig, notDriverVars>>

\* No batch is followed by a delay
FurtherBatchesRemain_Never(i, n) == FALSE

\* The test with <= in place of <
FurtherBatchesRemain_OrEqual(i, n) == i + BatchSize <= n

\* `if (i + 5 < files.length)` (line 832)
FurtherBatchesRemain(i, n) == i + BatchSize < n

\* Lines 825-836: Promise.all resolves, the results are pushed, and the
\* loop either waits (further batches remain) or steps on
AwaitAll ==
    /\ pc = "await"
    /\ AllResolved(Outstanding(repo), batch)
    /\ allEnvVars' = IF PushOnResolve THEN allEnvVars
                     ELSE allEnvVars \o Flatten(batch, results, 1)
    /\ IF FurtherBatchesRemain(iLoop, Len(files))
          THEN pc' = "delay" /\ iLoop' = iLoop
          ELSE pc' = "loop" /\ iLoop' = iLoop + BatchSize
    /\ UNCHANGED <<runInputs, settled, active, classifications, packageVars, repo,
                   pending, currentConfig, files, response, batch, results,
                   calls, batches, delays, lastBatch, overtaken, uniqueEnvVars, updatedConfig,
                   error, notDriverVars>>

\* Line 834: the timer of the inter-batch delay fires
Delay ==
    /\ pc = "delay"
    /\ iLoop' = iLoop + BatchSize
    /\ delays' = delays + 1
    /\ lastBatch' = Waited(lastBatch)
    /\ pc' = "loop"
    /\ UNCHANGED <<runInputs, settled, active, classifications, packageVars,
                   repo, pending, currentConfig, files, response, batch,
                   results, calls, batches, overtaken, allEnvVars,
                   uniqueEnvVars, updatedConfig, error, notDriverVars>>

\* Lines 839-847: the loop test fails; the duplicates are removed, and a
\* package with no declaration is reported as done
RemoveDuplicates ==
    /\ pc = "loop"
    /\ iLoop >= Len(files)
    /\ uniqueEnvVars' = UniqueEnvVars(allEnvVars)
    /\ IF Len(uniqueEnvVars') = 0
          THEN pc' = "skipped" /\ classifications' = Classify(repo)
          ELSE pc' = "merge" /\ UNCHANGED classifications
    /\ UNCHANGED <<runInputs, settled, active, packageVars, repo, pending,
                   currentConfig, files, response, iLoop, batch, results,
                   calls, batches, delays, lastBatch, overtaken, allEnvVars, updatedConfig,
                   error, notDriverVars>>

\* Lines 855-864: merge, then compare with the manifest's configuration
MergeAndCompare ==
    /\ pc = "merge"
    /\ updatedConfig' = mergeEnvVariables(currentConfig, uniqueEnvVars)
    /\ IF hasConfigurationChanged(currentConfig, updatedConfig')
          THEN pc' = "update" /\ UNCHANGED classifications
          ELSE pc' = "unchanged" /\ classifications' = Classify(repo)
    /\ UNCHANGED <<runInputs, settled, active, packageVars, repo, pending,
                   currentConfig, files, response, iLoop, batch, results,
                   calls, batches, delays, lastBatch, overtaken, allEnvVars, uniqueEnvVars,
                   error, notDriverVars>>

\* Lines 870-884: updatePackageJson (lines 666-704) sets agentConfig, bumps
\* the version and writes the manifest; it returns false where the file is
\* missing or the read or the write throws
UpdatePackageJson ==
    /\ pc = "update"
    /\ \E o \in UpdateOutcomes, v \in DiskVersions :
          /\ packageUpdated' = (o = "written")
          /\ persisted' = [persisted EXCEPT !.update = o]
          /\ manifest' = IF o = "written"
                            THEN [writes |-> manifest.writes + 1,
                                  agentConfig |-> updatedConfig,
                                  before |-> v,
                                  after |-> BumpVersion(v)]
                            ELSE manifest
    /\ pc' = "commit"
    /\ UNCHANGED <<runInputs, settled, active, classifications, listing,
                   clonedBranch, committed, report, repo, pending,
                   batchVars, error, notDriverVars>>

\* Lines 888-906: commitChanges (lines 741-782) returns true once the push
\* is through and false otherwise; one of the three messages is given.
\* A commit of package.json goes through only where the file was written.
CommitChanges ==
    /\ pc = "commit"
    /\ \E o \in CommitOutcomes :
          /\ (o \in {"pushError", "pushed"}) => packageUpdated
          /\ committed' = (o = "pushed")
          /\ persisted' = [persisted EXCEPT !.commit = o]
          /\ report' = ReportOf(committed', packageUpdated)
    /\ classifications' = Classify(repo)
    /\ pc' = "updated"
    /\ UNCHANGED <<runInputs, settled, active, listing, clonedBranch,
                   packageUpdated, manifest, repo, pending, batchVars,
                   error, notDriverVars>>

\* What processRepository returns after the cleanup of lines 848, 865, 909
ReturnOf(at) == IF at = "updated" THEN "true" ELSE "false"

\* Lines 848-849, 865-866 and 909-910: the working tree is removed and
\* processRepository returns; an error of the removal is caught at line 911
Cleanup ==
    /\ pc \in {"skipped", "unchanged", "updated"}
    /\ settled = "no"
    /\ \E removed \in BOOLEAN :
          IF removed
             THEN /\ settled' = ReturnOf(pc)
                  /\ active' = active \ {repo}
                  /\ workingTrees' = workingTrees \ {repo}
                  /\ UNCHANGED <<pc, error, classifications>>
             ELSE /\ pc' = "failed"
                  /\ error' = "cleanup"
                  /\ classifications' = Classify(repo)
                  /\ UNCHANGED <<settled, active, workingTrees>>
    /\ UNCHANGED <<runpc, githubToken, openaiApiKey, testMode, repositories,
                   packageVars, repo, pending, batchVars, notDriverVars>>

\* The cleanup of the catch, guarded by a try of its own
CatchCleanup_Guarded(removed) == "false"

\* Lines 918-923: the cleanup of the catch is not guarded, so an error of
\* pathExists or remove rejects the promise of processRepository
CatchCleanup(removed) == IF removed THEN "false" ELSE "threw"

\* Lines 911-924: after spinner.fail the working tree is removed, if there
\* is one, and processRepository returns false
CatchAndReturn ==
    /\ pc = "failed"
    /\ settled = "no"
    /\ \E removed \in (IF repo \in workingTrees THEN BOOLEAN ELSE {TRUE}) :
          /\ settled' = CatchCleanup(removed)
          /\ workingTrees' = IF removed THEN workingTrees \ {repo}
                                        ELSE workingTrees
    /\ active' = active \ {repo}
    /\ UNCHANGED <<runpc, githubToken, openaiApiKey, testMode, repositories,
                   classifications, packageVars, repo, pc, pending,
                   batchVars, error, notDriverVars>>

Next ==
    \/ Construct
    \/ GetRepositories
    \/ NextRepository
    \/ FinishRun
    \/ AbortRun
    \/ CheckBranch
    \/ CloneRepository
    \/ GetCurrentAgentConfig
    \/ ScanFiles
    \/ StartBatch
    \/ ResolveCall
    \/ AwaitAll
    \/ Delay
    \/ RemoveDuplicates
    \/ MergeAndCompare
    \/ UpdatePackageJson
    \/ CommitChanges
    \/ Cleanup
    \/ CatchAndReturn

Spec == Init /\ [][Next]_vars

SpecAnyMode == InitAnyMode /\ [][Next]_vars

-----------------------------------------------------------------------------
(* The plugin migration: main (lines 20-79) and migrateRepository (lines   *)
(* 132-205).  A repository is the index it has in the organisation; every  *)
(* git and file system call may succeed or throw.                          *)

\* reposToMigrate of line 40
MigrationLists == { [k \in 1..n |-> k] : n \in 0..MaxMigrate }

InitMigrate ==
    /\ reposToMigrate \in MigrationLists
    /\ migIndex = 0
    /\ migpc = "start"
    /\ thrown = FALSE
    /\ tempDirs = {}
    /\ attempted = <<>>
    /\ outcomes = <<>>
    /\ warned = {}
    /\ RenameIdle
    /\ RerunIdle
    /\ existing = Null
    /\ discovered = <<>>
    /\ mpc = "idle"
    /\ MergeIdle
    /\ VersionIdle
    /\ ParseIdle
    /\ ScanIdle
    /\ DriverIdle

notMigrateVars ==
    <<mergeVars, versionVars, parseVars, scanVars, renameVars, rerunVars,
      driverVars>>

\* Lines 43-46: nothing to migrate, main returns
NothingToMigrate ==
    /\ migpc = "start"
    /\ reposToMigrate = <<>>
    /\ migpc' = "completed"
    /\ UNCHANGED <<reposToMigrate, migIndex, thrown, tempDirs, attempted,
                   outcomes, warned, notMigrateVars>>

\* Lines 53-55: ensureDir and emptyDir; their error is caught at line 77
PrepareTempDir ==
    /\ migpc = "start"
    /\ reposToMigrate # <<>>
    /\ \E ok \in BOOLEAN :
          /\ migpc' = IF ok THEN "loop" ELSE "exit1"
          /\ migIndex' = IF ok THEN 1 ELSE migIndex
    /\ UNCHANGED <<reposToMigrate, thrown, tempDirs, attempted, outcomes,
                   warned, notMigrateVars>>

\* The repository of the iteration
Current == reposToMigrate[migIndex]

\* Lines 58-65: the loop calls migrateRepository for reposToMigrate[i]
CallMigrateRepository ==
    /\ migpc = "loop"
    /\ migIndex <= Len(reposToMigrate)
    /\ attempted' = Append(attempted, Current)
    /\ thrown' = FALSE
    /\ migpc' = "clone"
    /\ UNCHANGED <<reposToMigrate, migIndex, tempDirs, outcomes, warned,
                   notMigrateVars>>

\* Lines 137-141: git clone into repoDir; a failed clone may leave a part
\* of the directory behind.  The catch of lines 192-194 rethrows.
GitClone ==
    /\ migpc = "clone"
    /\ \E ok \in BOOLEAN, left \in BOOLEAN :
          /\ ok => left
          /\ tempDirs' = IF left THEN tempDirs \cup {Current} ELSE tempDirs
          /\ thrown' = ~ok
          /\ migpc' = IF ok THEN "checkout" ELSE "finally"
    /\ UNCHANGED <<reposToMigrate, migIndex, attempted, outcomes, warned,
                   notMigrateVars>>

\* An execa call of migrateRepository: it resolves and the function goes
\* on, or it rejects and the catch of lines 192-194 rethrows
Execa(ok, next) ==
    /\ thrown' = ~ok
    /\ migpc' = IF ok THEN next ELSE "finally"

\* Lines 143-150: chdir and git checkout -b 1.x-migrate
GitCheckout ==
    /\ migpc = "checkout"
    /\ \E ok \in BOOLEAN : Execa(ok, "upgrade")
    /\ UNCHANGED <<reposToMigrate, migIndex, tempDirs, attempted, outcomes,
                   warned, notMigrateVars>>

\* Lines 152-157: npx elizaos plugins upgrade .
Upgrade ==
    /\ migpc = "upgrade"
    /\ \E ok \in BOOLEAN : Execa(ok, "status")
    /\ UNCHANGED <<reposToMigrate, migIndex, tempDirs, attempted, outcomes,
                   warned, notMigrateVars>>

\* Lines 159-167: git status; without changes the function returns
GitStatus ==
    /\ migpc = "status"
    /\ \E status \in {"clean", "dirty", "error"} :
          /\ thrown' = (status = "error")
          /\ migpc' = IF status = "dirty" THEN "add" ELSE "finally"
    /\ UNCHANGED <<reposToMigrate, migIndex, tempDirs, attempted, outcomes,
                   warned, notMigrateVars>>

\* Lines 169-173
GitAdd ==
    /\ migpc = "add"
    /\ \E ok \in BOOLEAN : Execa(ok, "commit")
    /\ UNCHANGED <<reposToMigrate, migIndex, tempDirs, attempted, outcomes,
                   warned, notMigrateVars>>

\* Lines 175-179
GitCommit ==
    /\ migpc = "commit"
    /\ \E ok \in BOOLEAN : Execa(ok, "push")
    /\ UNCHANGED <<reposToMigrate, migIndex, tempDirs, attempted, outcomes,
                   warned, notMigrateVars>>

\* Lines 181-189
GitPush ==
    /\ migpc = "push"
    /\ \E ok \in BOOLEAN : Execa(ok, "finally")
    /\ UNCHANGED <<reposToMigrate, migIndex, tempDirs, attempted, outcomes,
                   warned, notMigrateVars>>

\* The finally without its try: an error of fs.remove replaces the outcome
\* of migrateRepository
CleanupRepoDir_Unguarded(removed, wasThrown) ==
    IF removed /\ ~wasThrown THEN "returned" ELSE "rejected"

\* Lines 195-204: the error of fs.remove is caught and logged; the function
\* then returns, or rethrows what the catch of line 192 threw
CleanupRepoDir(removed, wasThrown) ==
    IF wasThrown THEN "rejected" ELSE "returned"

\* Lines 195-204: fs.remove(repoDir) can only fail on a directory that
\* exists
Finally ==
    /\ migpc = "finally"
    /\ \E removed \in (IF Current \in tempDirs THEN BOOLEAN ELSE {TRUE}) :
          /\ tempDirs' = IF removed THEN tempDirs \ {Current} ELSE tempDirs
          /\ warned' = IF removed THEN warned ELSE warned \cup {Current}
          /\ migpc' = CleanupRepoDir(removed, thrown)
    /\ UNCHANGED <<reposToMigrate, migIndex, thrown, attempted, outcomes,
                   notMigrateVars>>

\* Line 66: migrateRepository returned
LogSuccess ==
    /\ migpc = "returned"
    /\ outcomes' = Append(outcomes, "migrated")
    /\ migIndex' = migIndex + 1
    /\ migpc' = "loop"
    /\ UNCHANGED <<reposToMigrate, thrown, tempDirs, attempted, warned,
                   notMigrateVars>>

\* The loop without its try: the error reaches the catch of line 77
CatchMigrateError_Fatal(at) == "exit1"

\* Lines 67-70: the catch logs the failure and continues
CatchMigrateError(at) == "loop"

LogFailure ==
    /\ migpc = "rejected"
    /\ outcomes' = Append(outcomes, "failed")
    /\ migpc' = CatchMigrateError(migpc)
    /\ migIndex' = IF migpc' = "loop" THEN migIndex + 1 ELSE migIndex
    /\ thrown' = FALSE
    /\ UNCHANGED <<reposToMigrate, tempDirs, attempted, warned,
                   notMigrateVars>>

\* Lines 73-79: the loop is over; fs.remove(TEMP_DIR), whose error is caught
\* at line 77
RemoveTempDir ==
    /\ migpc = "loop"
    /\ migIndex > Len(reposToMigrate)
    /\ \E removed \in BOOLEAN :
          /\ tempDirs' = IF removed THEN {} ELSE tempDirs
          /\ migpc' = IF removed THEN "completed" ELSE "exit1"
    /\ UNCHANGED <<reposToMigrate, migIndex, thrown, attempted, outcomes,
                   warned, notMigrateVars>>

NextMigrate ==
    \/ NothingToMigrate
    \/ PrepareTempDir
    \/ CallMigrateRepository
    \/ GitClone
    \/ GitCheckout
    \/ Upgrade
    \/ GitStatus
    \/ GitAdd
    \/ GitCommit
    \/ GitPush
    \/ Finally
    \/ LogSuccess
    \/ LogFailure
    \/ RemoveTempDir

SpecMigrate == InitMigrate /\ [][NextMigrate]_vars

-----------------------------------------------------------------------------
(* The package scope rename: main (lines 231-309).                         *)
(*                                                                         *)
(* A package name is a sequence of pieces: the scopes "@elizaos-plugins/", *)
(* "@elizaos/" and "@other/", and "x", a piece that holds no "@" and no    *)
(* "/".  A manifest is the object JSON.parse yields, or Invalid for text   *)
(* that is not JSON; `layout` is the way its text is laid out.             *)

TARGET_BRANCH == "1.x"

OldScope == "@elizaos-plugins/"
NewScope == "@elizaos/"

PackageNames ==
    { <<>>, <<"x">>, <<OldScope, "x">>, <<NewScope, "x">>, <<"@other/", "x">>,
      <<OldScope>>, <<"x", OldScope, "x">>, <<OldScope, OldScope, "x">> }

Invalid == [invalid |-> TRUE]

Manifests ==
    { [name |-> n, version |-> "1.0.0"] : n \in PackageNames }
    \cup { [version |-> "1.0.0"], Invalid }

\* What GitHub holds for a repository: whether getBranch finds 1.x, what
\* getContent answers for package.json on it, and the file
OrgRepo(branch, content, pkg, layout) ==
    [branch |-> branch, content |-> content, pkg |-> pkg, layout |-> layout]

OrgRepos ==
    { OrgRepo(b, "404", Invalid, "none") : b \in {"404", "error"} }
    \cup { OrgRepo("exists", c, Invalid, "none") :
             c \in {"404", "error", "directory", "noContent"} }
    \cup { OrgRepo("exists", "file", m, "tabs") : m \in Manifests }

InitRename ==
    /\ orgRepos \in SeqsUpTo(OrgRepos, MaxOrgRepos)
    /\ renIndex = 0
    /\ renpc = "loop"
    /\ fileData = Null
    /\ writes = <<>>
    /\ MigrateIdle
    /\ RerunIdle
    /\ existing = Null
    /\ discovered = <<>>
    /\ mpc = "idle"
    /\ MergeIdle
    /\ VersionIdle
    /\ ParseIdle
    /\ ScanIdle
    /\ DriverIdle

notRenameVars ==
    <<mergeVars, versionVars, parseVars, scanVars, migrateVars, rerunVars,
      driverVars>>

\* Line 245: the loop takes the next repository
NextOrgRepo ==
    /\ renpc = "loop"
    /\ renIndex < Len(orgRepos)
    /\ renIndex' = renIndex + 1
    /\ fileData' = Null
    /\ renpc' = "getBranch"
    /\ UNCHANGED <<orgRepos, writes, notRenameVars>>

\* Line 245: no repository is left and main returns
RenameDone ==
    /\ renpc = "loop"
    /\ renIndex = Len(orgRepos)
    /\ renpc' = "completed"
    /\ UNCHANGED <<orgRepos, renIndex, fileData, writes, notRenameVars>>

\* Lines 248-263: without the branch (status 404) the repository is skipped;
\* any other error leaves main and ends the process (lines 311-314)
GetBranch ==
    /\ renpc = "getBranch"
    /\ renpc' = CASE orgRepos[renIndex].branch = "exists" -> "getContent"
                  [] orgRepos[renIndex].branch = "404" -> "loop"
                  [] OTHER -> "exit1"
    /\ UNCHANGED <<orgRepos, renIndex, fileData, writes, notRenameVars>>

\* Lines 265-284: a directory, a response without content and a 404 skip the
\* repository; any other error ends the process
GetContent ==
    /\ renpc = "getContent"
    /\ LET r == orgRepos[renIndex] IN
          /\ renpc' = CASE r.content = "file" -> "rename"
                        [] r.content = "error" -> "exit1"
                        [] OTHER -> "loop"
          /\ fileData' = IF r.content = "file"
                            THEN [content |-> r.pkg, layout |-> r.layout,
                                  sha |-> renIndex]
                            ELSE fileData
    /\ UNCHANGED <<orgRepos, renIndex, writes, notRenameVars>>

\* The scope anywhere in the name
StartsWith_Includes(name, scope) == \E k \in 1..Len(name) : name[k] = scope

\* oldName.startsWith(scope) (line 289)
StartsWith(name, scope) == Len(name) >= 1 /\ name[1] = scope

\* Line 289: `!oldName || !oldName.startsWith("@elizaos-plugins/")`; a name
\* that is not set and "" are falsy
SkipsName(pkg) ==
    \/ "name" \notin DOMAIN pkg
    \/ pkg.name = <<>>
    \/ ~StartsWith(pkg.name, OldScope)

\* oldName.replace(/^@elizaos-plugins\//, "@elizaos/") (line 293)
ReplaceScope(name) ==
    IF StartsWith(name, OldScope) THEN <<NewScope>> \o Tail(name) ELSE name

\* Lines 293-294: pkg.name = newName
Renamed(pkg) == [pkg EXCEPT !["name"] = ReplaceScope(pkg.name)]

\* Lines 286-304: text that is not JSON makes JSON.parse throw; a name of
\* another scope skips the repository; else the manifest is written with
\* the new name, two spaces of indentation and a final newline, and an
\* error of that call ends the process
RenameScope ==
    /\ renpc = "rename"
    /\ LET pkg == fileData.content IN
          IF pkg = Invalid
             THEN renpc' = "exit1" /\ writes' = writes
             ELSE IF SkipsName(pkg)
                     THEN renpc' = "loop" /\ writes' = writes
                     ELSE \E ok \in BOOLEAN :
                             /\ renpc' = IF ok THEN "loop" ELSE "exit1"
                             /\ writes' =
                                   IF ok
                                      THEN Append(writes,
                                             [repo |-> renIndex,
                                              path |-> "package.json",
                                              branch |-> TARGET_BRANCH,
                                              pkg |-> Renamed(pkg),
                                              layout |-> "2 spaces",
                                              sha |-> fileData.sha])
                                      ELSE writes
    /\ UNCHANGED <<orgRepos, renIndex, fileData, notRenameVars>>

NextRename ==
    \/ NextOrgRepo
    \/ RenameDone
    \/ GetBranch
    \/ GetContent
    \/ RenameScope

SpecRename == InitRename /\ [][NextRename]_vars

-----------------------------------------------------------------------------
(* processRepository twice on one package, with the same artifacts and the *)
(* same results of their analysis, and with every write and push going     *)
(* through.  package.json is the object readJson yields: `agentConfig` is   *)
(* not in its DOMAIN where the manifest has none.                          *)

PackageJson(config, v) ==
    [version |-> v] @@
    (IF config = Null THEN <<>> ELSE [agentConfig |-> config])

PackageJsons ==
    { PackageJson(c, v) :
        c \in AgentConfigs(ExistingValues) \cup {Null}, v \in DiskVersions }

\* A read that fails: the catch of lines 608-611
getCurrentAgentConfig_Unreadable(pkg) == Null

\* getCurrentAgentConfig (lines 598-612): `packageJson.agentConfig || null`
getCurrentAgentConfig(pkg) ==
    IF "agentConfig" \in DOMAIN pkg THEN pkg.agentConfig ELSE Null

\* JSON.stringify of a configuration and JSON.parse of the text: the own
\* properties and their values, all of them strings and booleans
JsonRoundTrip(config) ==
    [pluginType |-> config.pluginType,
     pluginParameters |->
         [k \in DOMAIN config.pluginParameters |->
             [a \in DOMAIN config.pluginParameters[k] |->
                 config.pluginParameters[k][a]]]]

\* updatePackageJson, lines 677-692: the manifest that writeJson stores
WrittenPackageJson(pkg, config) ==
    [agentConfig |-> JsonRoundTrip(config),
     version |-> BumpVersion(pkg.version)]

\* processRepository from line 803 on for a package whose manifest is pkg
\* and whose artifacts yield allVars: how it ends and the manifest it
\* leaves on the branch
ProcessPackage(pkg, allVars) ==
    LET current == getCurrentAgentConfig(pkg)
        uniqueVars == UniqueEnvVars(allVars)
        config == mergeEnvVariables(current, uniqueVars)
    IN  IF uniqueVars = <<>>
           THEN [outcome |-> "skipped", manifest |-> pkg]
           ELSE IF ~hasConfigurationChanged(current, config)
                   THEN [outcome |-> "unchanged", manifest |-> pkg]
                   ELSE [outcome |-> "updated",
                         manifest |-> WrittenPackageJson(pkg, config)]

InitRerun ==
    /\ packageJson \in PackageJsons
    /\ extraction \in SeqsUpTo(EnvVariables, MaxDiscovered)
    /\ processed = <<>>
    /\ rpc = "first"
    /\ MigrateIdle
    /\ RenameIdle
    /\ existing = Null
    /\ discovered = <<>>
    /\ mpc = "idle"
    /\ MergeIdle
    /\ VersionIdle
    /\ ParseIdle
    /\ ScanIdle
    /\ DriverIdle

notRerunVars ==
    <<mergeVars, versionVars, parseVars, scanVars, migrateVars, renameVars,
      driverVars>>

\* A run processes the package
FirstProcessing ==
    /\ rpc = "first"
    /\ LET r == ProcessPackage(packageJson, extraction) IN
          /\ processed' = Append(processed, r)
          /\ packageJson' = r.manifest
    /\ rpc' = "second"
    /\ UNCHANGED <<extraction, notRerunVars>>

\* A later run processes it again
SecondProcessing ==
    /\ rpc = "second"
    /\ LET r == ProcessPackage(packageJson, extraction) IN
          /\ processed' = Append(processed, r)
          /\ packageJson' = r.manifest
    /\ rpc' = "done"
    /\ UNCHANGED <<extraction, notRerunVars>>

NextRerun == FirstProcessing \/ SecondProcessing

SpecRerun == InitRerun /\ [][NextRerun]_vars

-----------------------------------------------------------------------------
(* Properties of mergeEnvVariables, the uniqueEnvVars filter and           *)
(* hasConfigurationChanged                                                 *)

AfterMerge == mpc \in {"merged", "remerged", "filtered", "done", "compared"}
AfterMergeAgain == mpc \in {"remerged", "filtered", "done", "compared"}
AfterFilter == mpc \in {"filtered", "done", "compared"}

Attributes == {"type", "description", "required", "default"}

\* The names of a declaration list and the first position of each
NamesOf(list) == { list[i].name : i \in 1..Len(list) }
Positions(list, n) == { i \in 1..Len(list) : list[i].name = n }
FirstPosition(list, n) ==
    CHOOSE i \in Positions(list, n) : \A j \in Positions(list, n) : i <= j

\* C1: mergeEnvVariables(E, D) with E present keeps E.pluginType and every
\* key of E.pluginParameters with the same type, description, required and
\* default, whatever D holds, and leaves E itself as it was.
C1_MergeKeepsExisting ==
    (AfterMerge /\ existing # Null) =>
        /\ merged.pluginType = existing.pluginType
        /\ \A k \in DOMAIN existing.pluginParameters :
              /\ k \in DOMAIN merged.pluginParameters
              /\ \A a \in Attributes :
                    SameProp(merged.pluginParameters[k],
                             existing.pluginParameters[k], a)
        /\ existingAfter = existing

\* A merge where D names a key of E with another description and also
\* brings a name E does not have
C1_Witness ==
    /\ mpc = "merged"
    /\ existing # Null
    /\ \E i \in 1..Len(discovered) :
          /\ discovered[i].name \in DOMAIN existing.pluginParameters
          /\ discovered[i].description #
                existing.pluginParameters[discovered[i].name].description
    /\ \E j \in 1..Len(discovered) :
          /\ discovered[j].name \notin DOMAIN existing.pluginParameters
          /\ discovered[j].name \in DOMAIN merged.pluginParameters

\* C2: merging the same discovered list a second time changes nothing:
\* mergeEnvVariables(mergeEnvVariables(E, D), D) = mergeEnvVariables(E, D)
\* in pluginType and in every parameter key and attribute, for E present or
\* null and for D with repeated names.
C2_MergeIdempotent ==
    AfterMergeAgain =>
        /\ remerged.pluginType = merged.pluginType
        /\ DOMAIN remerged.pluginParameters = DOMAIN merged.pluginParameters
        /\ \A k \in DOMAIN merged.pluginParameters : \A a \in Attributes :
              SameProp(remerged.pluginParameters[k],
                       merged.pluginParameters[k], a)

\* A second merge of a list that repeats a name with other attributes
C2_Witness ==
    /\ mpc = "remerged"
    /\ \E i, j \in 1..Len(discovered) :
          /\ i < j
          /\ discovered[i].name = discovered[j].name
          /\ discovered[i] # discovered[j]
          /\ discovered[i].name \in DOMAIN remerged.pluginParameters

\* C3: the filter keeps, for every name of the accumulated list, exactly one
\* declaration, the one at the smallest index, in the accumulated order; the
\* configuration merged from the filtered list carries the first-encountered
\* type and description of a duplicated new name.
C3_DedupFirstWins ==
    /\ AfterFilter =>
          /\ NamesOf(unique) = NamesOf(discovered)
          /\ \A n \in NamesOf(discovered) :
                /\ Cardinality(Positions(unique, n)) = 1
                /\ \A i \in Positions(unique, n) :
                      unique[i] = discovered[FirstPosition(discovered, n)]
          /\ \A i, j \in 1..Len(unique) :
                i < j => FirstPosition(discovered, unique[i].name)
                            < FirstPosition(discovered, unique[j].name)
    /\ (mpc = "done") =>
          \A n \in NamesOf(discovered) :
              (existing = Null \/ n \notin DOMAIN existing.pluginParameters)
              => LET first == discovered[FirstPosition(discovered, n)]
                     entry == mergedUnique.pluginParameters[n]
                 IN  /\ entry.description = first.description
                     /\ entry.type = first.type

\* A list that repeats a new name with another description around a second
\* name
C3_Witness ==
    /\ mpc = "done"
    /\ Len(unique) = 2
    /\ \E i, j \in 1..Len(discovered) :
          /\ j > i + 1
          /\ discovered[i].name = discovered[j].name
          /\ discovered[i].description # discovered[j].description
          /\ (existing = Null
                \/ discovered[i].name \notin DOMAIN existing.pluginParameters)

SameParameters(e, u) ==
    /\ DOMAIN e.pluginParameters = DOMAIN u.pluginParameters
    /\ \A k \in DOMAIN e.pluginParameters : \A a \in Attributes :
          SameProp(e.pluginParameters[k], u.pluginParameters[k], a)

\* C4: hasConfigurationChanged(E, M) is true when E is null; for E present
\* it is false exactly when E and M have the same parameter keys and, for
\* every key, equal type, description, required and default.
C4_ChangeDetection ==
    (mpc = "compared") =>
        (changed <=> (existing = Null \/ ~SameParameters(existing, updated)))

\* Two configurations with the same two parameters and different plugin
\* types, reported as not changed
C4_Witness ==
    /\ mpc = "compared"
    /\ existing # Null
    /\ ~changed
    /\ DOMAIN updated.pluginParameters = Names
    /\ existing.pluginType # updated.pluginType

-----------------------------------------------------------------------------
(* Properties of the version bump                                          *)

IsNonNegativeInteger(c) == Len(c) > 0 /\ \A k \in 1..Len(c) : IsDigit(c[k])

IsThreeIntegers(v) ==
    Len(v) = 3 /\ \A k \in 1..3 : IsNonNegativeInteger(v[k])

\* C5: a version of exactly three dot-separated non-negative integers a.b.c
\* becomes a.b.(c+1); every other version string (another component count,
\* or a component that is not numeric) is left exactly as it was.
C5_VersionBump ==
    (vpc = "bumped") =>
        IF IsThreeIntegers(version)
            THEN newVersion =
                    <<NatToString(DigitPrefix(version[1], 1, 0)),
                      NatToString(DigitPrefix(version[2], 1, 0)),
                      NatToString(DigitPrefix(version[3], 1, 0) + 1)>>
            ELSE newVersion = version

-----------------------------------------------------------------------------
(* Properties of the response parsing                                      *)

IsJsonArray(t) == JSONParse(t).ok /\ JSONParse(t).val.kind = "array"
ArrayOf(t) == JSONParse(t).val.items

\* The substrings of t that start with "[", end with "]" and parse as a
\* JSON array
ArraySubstrings(t) ==
    { SubSeq(t, i, j) : i \in 1..Len(t), j \in 1..Len(t) } \cap
    { u \in SeqsUpTo(Tokens, Len(t)) : Len(u) >= 2 /\ IsJsonArray(u) }

\* The text from the first "[" to the last "]" of t, <<>> when t has no "["
\* followed by a "]"
BracketSpan(t) ==
    LET opens  == { i \in 1..Len(t) : t[i] = "[" }
        closes == { i \in 1..Len(t) : t[i] = "]" }
    IN  IF opens = {} \/ closes = {} THEN <<>>
        ELSE LET lo == CHOOSE i \in opens : \A k \in opens : i <= k
                 hi == CHOOSE j \in closes : \A k \in closes : j >= k
             IN  IF lo < hi THEN SubSeq(t, lo, hi) ELSE <<>>

\* C6 as stated: the parsing never raises; a response that is a JSON array
\* yields that array; otherwise a response that contains an array-shaped
\* substring that parses as a JSON array yields that array; every other
\* response yields the empty list.
C6_AnySubstring ==
    (ppc = "parsed") =>
        /\ ~parsed.threw
        /\ IF IsJsonArray(responseText)
               THEN parsed.value = ArrayOf(responseText)
           ELSE IF ArraySubstrings(responseText) # {}
               THEN \E u \in ArraySubstrings(responseText) :
                        parsed.value = ArrayOf(u)
           ELSE parsed.value = <<>>

\* C6 (amended): the parsing never raises; a response that is a JSON array
\* yields that array; otherwise, if the text from the first "[" to the last
\* "]" of the response parses as a JSON array, it yields that array; every
\* other response yields the empty list.
C6_ParseFallback ==
    (ppc = "parsed") =>
        /\ ~parsed.threw
        /\ IF IsJsonArray(responseText)
               THEN parsed.value = ArrayOf(responseText)
           ELSE IF IsJsonArray(BracketSpan(responseText))
               THEN parsed.value = ArrayOf(BracketSpan(responseText))
           ELSE parsed.value = <<>>

\* Prose followed by a non-empty array, returned as that array
C6_Witness ==
    /\ ppc = "parsed"
    /\ Len(responseText) >= 4
    /\ responseText[1] = "w"
    /\ ~IsJsonArray(responseText)
    /\ parsed.value # <<>>

-----------------------------------------------------------------------------
(* Properties of the batch loop of processRepository                       *)

\* The loop over the batches has ended
LoopDone ==
    pc \in {"skipped", "merge", "unchanged", "update", "commit", "updated"}
Deduplicated == pc \in {"merge", "unchanged", "update", "commit", "updated"}
Merged == pc \in {"unchanged", "update", "commit", "updated"}

IsFailure(r) == r.kind \in FailureKinds

\* What the artifacts from f on declare, in the order of the artifact list
RECURSIVE Declared(_)
Declared(f) ==
    IF f > Len(files) THEN <<>>
    ELSE (IF response[f].kind = "ok" THEN response[f].vars ELSE <<>>)
         \o Declared(f + 1)

\* C7: a failure while extracting one artifact (read error, error of the
\* capability's call, unparseable response) makes that artifact contribute
\* no declaration; every other artifact is still extracted and its
\* declarations are accumulated, and the package does not fail because of it.
C7_ExtractionFailureIsLocal ==
    /\ \A f \in DOMAIN results : IsFailure(response[f]) => results[f] = <<>>
    /\ (pc = "failed") => error # "extraction"
    /\ LoopDone =>
          /\ \A f \in 1..Len(files) :
                /\ calls[f] = 1
                /\ f \in DOMAIN results
                /\ response[f].kind = "ok" => results[f] = response[f].vars
          /\ allEnvVars = Declared(1)

\* A package past its loop with a failed artifact in the first batch, next
\* to one that declared something there and one that did in a later batch
C7_Witness ==
    /\ pc = "updated"
    /\ \E f, g \in 1..BatchSize, h \in (BatchSize + 1)..Len(files) :
          /\ g <= Len(files)
          /\ IsFailure(response[f])
          /\ response[g].kind = "ok" /\ results[g] # <<>>
          /\ response[h].kind = "ok" /\ results[h] # <<>>
    /\ Len(allEnvVars) >= 2

RECURSIVE SumOfLengths(_)
SumOfLengths(f) ==
    IF f > Len(files) THEN 0 ELSE Len(results[f]) + SumOfLengths(f + 1)

\* C8: n artifacts are issued in ceil(n/5) batches, batch k holding the
\* artifacts at indices 5k .. min(5k+4, n-1) in list order; every artifact
\* is passed to the extractor exactly once, and the accumulated list is as
\* long as the n extraction results together.
C8_BatchSchedule ==
    /\ \A f \in 1..Len(files) : calls[f] <= 1
    /\ \A k \in 1..Len(batches) :
          batches[k] =
              [j \in 1..Min(BatchSize, Len(files) - BatchSize * (k - 1))
                  |-> files[BatchSize * (k - 1) + j]]
    /\ LoopDone =>
          /\ Len(batches) = (Len(files) + BatchSize - 1) \div BatchSize
          /\ \A f \in 1..Len(files) : calls[f] = 1
          /\ Len(allEnvVars) = SumOfLengths(1)

\* Twelve artifacts, issued as 5, 5 and 2, with eighteen declarations
C8_Witness ==
    /\ LoopDone
    /\ Len(files) = 12
    /\ Len(batches) = 3
    /\ Len(batches[1]) = 5 /\ Len(batches[2]) = 5 /\ Len(batches[3]) = 2
    /\ Len(allEnvVars) = 18

\* C9: at most 5 extraction calls are outstanding, all of them of the batch
\* in progress of the package in process, and none is outstanding outside
\* the await of a batch: the next batch starts only when every call of this
\* one has resolved.
C9_BatchesSequential ==
    /\ Cardinality(pending) <= BatchSize
    /\ \A p \in pending : p[1] = repo /\ p[2] \in Range(batch)
    /\ (pc # "await") => pending = {}
    /\ (batches # <<>>) => batch = batches[Len(batches)]

\* The five calls of the second batch of a second package, all outstanding
C9_Witness ==
    /\ repo = 2
    /\ pc = "await"
    /\ iLoop = BatchSize
    /\ Cardinality(pending) = BatchSize

\* The first artifact that declares name n, and its declaration of n
DeclaresName(f, n) ==
    response[f].kind = "ok" /\ n \in NamesOf(response[f].vars)
WinnerFile(n) ==
    CHOOSE f \in 1..Len(files) :
        DeclaresName(f, n) /\ \A g \in 1..(f - 1) : ~DeclaresName(g, n)
Winner(n) ==
    LET list == response[WinnerFile(n)].vars
    IN  list[FirstPosition(list, n)]

\* C10: whatever the order in which the calls of a batch complete, the
\* accumulated list is the artifacts' results in artifact-list order, the
\* deduplicated list holds for every name the declaration of the earliest
\* artifact that reports it, and the merged configuration carries that
\* declaration for a new name.
C10_OrderIndependent ==
    /\ LoopDone => allEnvVars = Declared(1)
    /\ Deduplicated =>
          /\ NamesOf(uniqueEnvVars) = NamesOf(Declared(1))
          /\ \A k \in 1..Len(uniqueEnvVars) :
                uniqueEnvVars[k] = Winner(uniqueEnvVars[k].name)
    /\ Merged =>
          \A n \in NamesOf(Declared(1)) :
              (currentConfig = Null
                  \/ n \notin DOMAIN currentConfig.pluginParameters)
              => /\ updatedConfig.pluginParameters[n].type = Winner(n).type
                 /\ updatedConfig.pluginParameters[n].description
                        = Winner(n).description

\* Two artifacts of one batch that report A with other attributes, the
\* second one's call having completed first
C10_Witness ==
    /\ pc = "updated"
    /\ Len(files) = 2
    /\ overtaken
    /\ response[1] = Ok(<<VarA1>>)
    /\ response[2] = Ok(<<VarA2, VarB1>>)
    /\ currentConfig = Null
    /\ updatedConfig.pluginParameters["A"].description = "d1"

-----------------------------------------------------------------------------
(* Properties of processRepository past the batch loop, and of run         *)

\* C11: the manifest is written (agentConfig and version) and a commit is
\* attempted only where at least one declaration was discovered and the
\* merged configuration differs from the prior one; on the skipped and on
\* the unchanged path nothing is written, bumped or committed.
C11_WriteOnlyOnChange ==
    /\ (manifest.writes > 0 \/ packageUpdated \/ report # "none"
            \/ committed) =>
          /\ uniqueEnvVars # <<>>
          /\ \/ currentConfig = Null
             \/ ~SameParameters(currentConfig, updatedConfig)
    /\ (pc \in {"skipped", "unchanged"}) =>
          /\ manifest = NoManifest
          /\ ~packageUpdated
          /\ report = "none"
          /\ ~committed

\* A manifest that declared A gains B: written once with the merged
\* configuration and version 1.9.10, and pushed
C11_Witness ==
    /\ pc = "updated"
    /\ currentConfig # Null
    /\ manifest.writes = 1
    /\ manifest.agentConfig = updatedConfig
    /\ DOMAIN updatedConfig.pluginParameters = {"A", "B"}
    /\ manifest.after = << <<"1">>, <<"9">>, <<"1", "0">> >>
    /\ committed

\* updatePackageJson could not read or write the manifest, or commitChanges
\* could not configure, commit or push
PersistenceFailed ==
    \/ persisted.update \in {"readError", "writeError"}
    \/ persisted.commit \in {"configError", "commitError", "pushError"}

Terminated == runpc \in {"completed", "exit1"}
LastRepository == repo = Len(FilteredRepos(repositories))

\* C12: a package is classified as updated only if the configuration and
\* the version were persisted; where updatePackageJson or commitChanges
\* fails the package is failed, is not counted as processed, and the run
\* goes on with the next package.
C12_UpdatedOnlyIfPersisted ==
    /\ (pc = "updated") => (~PersistenceFailed /\ manifest.writes = 1)
    /\ (settled = "true") => ~PersistenceFailed
    /\ (PersistenceFailed /\ Terminated) => LastRepository

\* C13: no error of a package's processing leaves processRepository:
\* whatever step fails, the package is failed, the run is not aborted and
\* the later packages are still processed.
C13_ErrorsStayInPackage ==
    /\ settled # "threw"
    /\ (error # "none") => pc = "failed"
    /\ (error # "none" /\ Terminated) => LastRepository

\* C14: a run that is past the enumeration completes, and when it has
\* completed every repository of the filtered list has exactly one
\* terminal classification.
C14_EveryPackageClassified ==
    (runpc = "completed") =>
        \A r \in 1..Len(FilteredRepos(repositories)) :
            classifications[r] = 1

\* The package is between the call of processRepository and its settling
InProcess == pc # "idle" /\ settled = "no"

\* C15: packages are processed one at a time: at most one repository is
\* between the call of processRepository and its settling, it is the one
\* run is at, and every outstanding extraction call and every step of
\* processRepository is that repository's.
C15_OnePackageAtATime ==
    /\ Cardinality(active) <= 1
    /\ active \subseteq {repo}
    /\ InProcess => active = {repo}
    /\ \A p \in pending : p[1] \in active

\* The second repository is about to be committed; the first has settled
\* and is classified
C15_Witness ==
    /\ repo = 2
    /\ active = {2}
    /\ pc = "commit"
    /\ manifest.writes = 1
    /\ classifications[1] >= 1

\* The environment variable is not set
Missing(v) == ~v.set

\* C16: with GITHUB_TOKEN or OPENAI_API_KEY missing the scanner exits with
\* code 1 from its constructor: no repository is enumerated, cloned,
\* analysed or modified.
C16_CredentialsRequired ==
    (Missing(githubToken) \/ Missing(openaiApiKey)) =>
        /\ runpc \in {"new", "exit1"}
        /\ repositories = <<>>
        /\ repo = 0
        /\ pc = "idle"
        /\ active = {}
        /\ pending = {}
        /\ manifest = NoManifest
        /\ PackageIdle

\* The token is set and the key is not: the process has exited
C16_Witness ==
    /\ runpc = "exit1"
    /\ githubToken = EnvValue("token")
    /\ Missing(openaiApiKey)

\* C20: only a repository with a branch named exactly 1.x is processed: a
\* repository whose listing failed or has no such branch is not cloned,
\* analysed or modified, and what is cloned is the 1.x branch.
C20_Only1xBranch ==
    /\ (pc \notin {"idle", "start", "noBranch"}) =>
          listing.ok /\ "1.x" \in listing.names
    /\ (clonedBranch # Null) =>
          /\ listing.ok /\ "1.x" \in listing.names
          /\ clonedBranch = Str("1.x")
    /\ (pc # "idle" /\ ~(listing.ok /\ "1.x" \in listing.names)) =>
          /\ clonedBranch = Null
          /\ files = <<>>
          /\ calls = <<>>
          /\ manifest = NoManifest
          /\ ~committed

\* A repository whose branches are main, 1.0 and v1 was skipped without a
\* clone
C20_Witness ==
    /\ pc = "noBranch"
    /\ settled = "false"
    /\ listing = Listing(TRUE, {"main", "1.0", "v1"})
    /\ clonedBranch = Null

\* C19: every element of the list that the extraction returns is a validated
\* declaration, with a non-empty name and a type that is string, number or
\* boolean; elements of the response's array that lack a name or carry
\* another type are not returned.
C19_OnlyValidatedDeclarations ==
    (ppc = "parsed") =>
        \A k \in 1..Len(parsed.value) : parsed.value[k] = Declaration

-----------------------------------------------------------------------------
(* Properties of scanFilesForEnvVars                                       *)

\* The paths of all the files of a tree
RECURSIVE FilesBelow(_, _)
FilesBelow(items, dir) ==
    UNION { IF e.kind = "file"
               THEN { Append(dir, e.name) }
               ELSE FilesBelow(e.items, Append(dir, e.name)) :
            e \in Range(items) }

\* The paths of the files that no unreadable directory hides
RECURSIVE ReadableFilesBelow(_, _)
ReadableFilesBelow(items, dir) ==
    UNION { IF e.kind = "file"
               THEN { Append(dir, e.name) }
               ELSE IF e.readable
                       THEN ReadableFilesBelow(e.items, Append(dir, e.name))
                       ELSE {} :
            e \in Range(items) }

RECURSIVE AllReadable(_)
AllReadable(items) ==
    \A e \in Range(items) :
        e.kind = "dir" => e.readable /\ AllReadable(e.items)

IsSuffix(t, s) ==
    /\ Len(t) <= Len(s)
    /\ \A k \in 1..Len(t) : s[Len(s) - Len(t) + k] = t[k]

AllowedSuffixes ==
    { <<".", "t", "s">>, <<".", "j", "s">>, <<".", "t", "s", "x">>,
      <<".", "j", "s", "x">>, <<".", "m", "d">>,
      <<".", "j", "s", "o", "n">> }

DeniedAncestors ==
    { <<"n", "o", "d", "e", "_", "m", "o", "d", "u", "l", "e", "s">>,
      <<".", "g", "i", "t">>, <<"d", "i", "s", "t">>,
      <<"b", "u", "i", "l", "d">>, <<".", "n", "e", "x", "t">> }

\* A path is selected: its file name ends in an allowed suffix and none of
\* the directories above it has a denied name
Selected(p) ==
    /\ \E t \in AllowedSuffixes : IsSuffix(t, p[Len(p)])
    /\ \A k \in 1..(Len(p) - 1) : p[k] \notin DeniedAncestors

NoDuplicates(s) ==
    \A i \in 1..Len(s), j \in 1..Len(s) : s[i] = s[j] => i = j

\* C17: a directory-read error on one subtree is not fatal:
\* scanFilesForEnvVars still yields the selected files of the readable parts
\* of the tree instead of throwing.
C17_UnreadableSubtreeNonFatal ==
    (spc = "done" /\ ~AllReadable(tree)) =>
        /\ ~scan.threw
        /\ Range(scan.files) =
               { p \in ReadableFilesBelow(tree, <<>>) : Selected(p) }

\* C18: for a fully readable tree scanFilesForEnvVars returns exactly the
\* files whose name ends in an allowed extension and that lie below no
\* directory of a denied name, each once, and leaves the tree as it was.
C18_ExactlyTheSelectedFiles ==
    (spc = "done" /\ AllReadable(tree)) =>
        /\ ~scan.threw
        /\ Range(scan.files) = { p \in FilesBelow(tree, <<>>) : Selected(p) }
        /\ NoDuplicates(scan.files)
        /\ treeAfter = tree

\* A readable tree of which one file is returned and another is left out
C18_Witness ==
    /\ spc = "done"
    /\ AllReadable(tree)
    /\ scan.files # <<>>
    /\ \E p \in FilesBelow(tree, <<>>) :
           /\ p \notin Range(scan.files)
           /\ Len(p) = 3

-----------------------------------------------------------------------------
(* Properties of the loops of run                                          *)

-----------------------------------------------------------------------------
(* Properties of the plugin migration                                      *)

\* The repositories whose migrateRepository has settled and was logged
Logged == 1..Len(outcomes)

\* migrateRepository is attempted for the repositories in list order, a
\* failure is logged and ends neither the loop nor the process, and a run
\* that leaves the loop has attempted every repository
MigrationContinues ==
    /\ Len(attempted) <= Len(reposToMigrate)
    /\ attempted = SubSeq(reposToMigrate, 1, Len(attempted))
    /\ Len(outcomes) <= Len(attempted)
    /\ (migpc = "rejected") => thrown
    /\ (migpc = "returned") => ~thrown
    /\ (migpc = "loop") =>
           Len(outcomes) = migIndex - 1 /\ Len(attempted) = migIndex - 1
    /\ (migpc = "completed") =>
           attempted = reposToMigrate /\ Len(outcomes) = Len(attempted)
    /\ (migpc = "exit1") =>
           \/ attempted = <<>>
           \/ attempted = reposToMigrate /\ Len(outcomes) = Len(attempted)

\* C22 as stated: a failure of migrateRepository is logged, every later
\* repository is still attempted in list order, and the temporary
\* directory of the failed repository is removed.
C22_ContinuesAndRemoves ==
    /\ MigrationContinues
    /\ \A k \in Logged :
           outcomes[k] = "failed" => attempted[k] \notin tempDirs

\* C22: a failure of migrateRepository is logged, every later repository is
\* still attempted in list order, and the removal of the failed
\* repository's temporary directory is attempted: the directory is gone
\* unless that removal failed, which is logged as a warning and changes
\* nothing else.
C22_ContinuesAfterFailure ==
    /\ MigrationContinues
    /\ \A k \in Logged : attempted[k] \in tempDirs => attempted[k] \in warned

\* The first repository failed, its directory was removed,
\* and the second was migrated
C22_Witness ==
    /\ migpc = "loop"
    /\ attempted = <<1, 2>>
    /\ outcomes = <<"failed", "migrated">>
    /\ tempDirs = {}
    /\ warned = {}

-----------------------------------------------------------------------------
(* Properties of the package scope rename                                  *)

\* The name begins with the scope @elizaos-plugins/
InOldScope(pkg) ==
    /\ "name" \in DOMAIN pkg
    /\ pkg.name # <<>>
    /\ Head(pkg.name) = "@elizaos-plugins/"

\* C23: package.json is written only on the 1.x branch and only for a
\* repository that has that branch and a package.json on it whose name
\* starts with "@elizaos-plugins/"; the written name is the old one with
\* that prefix replaced by "@elizaos/" and every other field is as it was.
C23_RenameOnlyOldScope ==
    \A k \in 1..Len(writes) :
        LET w == writes[k]
            r == orgRepos[w.repo]
        IN  /\ w.branch = "1.x"
            /\ w.path = "package.json"
            /\ r.branch = "exists"
            /\ r.content = "file"
            /\ r.pkg # Invalid
            /\ InOldScope(r.pkg)
            /\ DOMAIN w.pkg = DOMAIN r.pkg
            /\ w.pkg.name = <<"@elizaos/">> \o Tail(r.pkg.name)
            /\ \A f \in DOMAIN r.pkg \ {"name"} : w.pkg[f] = r.pkg[f]
            /\ \A j \in 1..Len(writes) : writes[j].repo = w.repo => j = k

\* A repository of another scope was passed over and the next one was
\* renamed
C23_Witness ==
    /\ renpc = "completed"
    /\ Len(orgRepos) = 2
    /\ orgRepos[1].content = "file"
    /\ orgRepos[1].pkg = [name |-> <<"@other/", "x">>, version |-> "1.0.0"]
    /\ Len(writes) = 1
    /\ writes[1].repo = 2
    /\ writes[1].pkg = [name |-> <<"@elizaos/", "@elizaos-plugins/", "x">>,
                        version |-> "1.0.0"]

-----------------------------------------------------------------------------
(* Properties of the delays                                                *)

\* The number of batches of n artifacts
BatchCount(n) == (n + BatchSize - 1) \div BatchSize

\* C24: within one package a delay follows a batch if and only if further
\* batches remain: each delay lies between the completion of batch k and
\* the start of batch k + 1, none follows the last batch, and for n
\* artifacts there are max(ceil(n/5) - 1, 0) of them.
C24_DelayBetweenBatches ==
    /\ (pc = "await") => delays = Len(batches) - 1
    /\ (pc = "delay") =>
          /\ delays = Len(batches) - 1
          /\ pending = {}
          /\ Len(batches) < BatchCount(Len(files))
    /\ (pc = "loop" /\ iLoop < Len(files)) => delays = Len(batches)
    /\ LoopDone =>
          /\ Len(batches) = BatchCount(Len(files))
          /\ delays = IF Len(files) = 0 THEN 0 ELSE BatchCount(Len(files)) - 1

\* Ten artifacts: two batches and one delay, none after the second batch
C24_Witness ==
    /\ LoopDone
    /\ Len(files) = 10
    /\ Len(batches) = 2
    /\ delays = 1

\* C25: between any two consecutive extraction batches of a run, of the
\* same package or of two packages, at least one delay elapses, with
\* TEST_MODE on and off.
C25_DelayBetweenAnyTwoBatches ==
    [][Len(batches') > Len(batches) => lastBatch # "issued"]_vars

\* With TEST_MODE off the second package is about to issue its first batch;
\* the first package was updated, and a delay has elapsed since its last
\* batch
C25_Witness ==
    /\ ~testMode
    /\ repo = 2
    /\ pc = "loop"
    /\ batches = <<>>
    /\ Len(files) > 0
    /\ lastBatch = "delayed"

-----------------------------------------------------------------------------
(* Properties of the entries that mergeEnvVariables inserts                *)

\* The names of D that the base configuration does not hold
NewNames ==
    NamesOf(discovered) \
        (IF existing = Null THEN {} ELSE DOMAIN existing.pluginParameters)

\* C26: for a discovered declaration whose name is not in the base
\* configuration, the inserted entry has the declaration's type and
\* description, has `required` exactly when the declaration carries it, with
\* its value, and has `default` exactly when the declaration carries
\* defaultValue, with its value, an empty string included; without an
\* existing configuration the pluginType is "elizaos:plugin:1.0.0".
C26_InsertedEntry ==
    AfterMerge =>
        /\ (existing = Null) => merged.pluginType = "elizaos:plugin:1.0.0"
        /\ \A n \in NewNames :
              LET d == discovered[FirstPosition(discovered, n)]
                  e == merged.pluginParameters[n]
              IN  /\ e.type = d.type
                  /\ e.description = d.description
                  /\ ("required" \in DOMAIN e) <=> ("required" \in DOMAIN d)
                  /\ ("required" \in DOMAIN d) => e.required = d.required
                  /\ ("default" \in DOMAIN e) <=> ("defaultValue" \in DOMAIN d)
                  /\ ("defaultValue" \in DOMAIN d) =>
                         e.default = d.defaultValue

\* C27: hasConfigurationChanged(E, mergeEnvVariables(E, D)) is true exactly
\* when E is absent or D holds a name that is not a key of
\* E.pluginParameters; a declaration that differs from an existing key only
\* in its attributes causes no update.
C27_ChangedIffNewName ==
    (mpc = "compared") => (changed <=> (existing = Null \/ NewNames # {}))

\* D names a key of E with another description and brings no new name: the
\* check reports no change
C27_Witness ==
    /\ mpc = "compared"
    /\ existing # Null
    /\ ~changed
    /\ \E i \in 1..Len(discovered) :
          /\ discovered[i].name \in DOMAIN existing.pluginParameters
          /\ discovered[i].description #
                existing.pluginParameters[discovered[i].name].description

-----------------------------------------------------------------------------
(* Properties of a package that is processed twice                         *)

\* C28: a package that was updated and persisted, processed again with the
\* same artifacts and the same extraction results, ends as unchanged: its
\* agentConfig is as the first processing left it and its version is not
\* incremented a second time.
C28_SecondProcessingUnchanged ==
    (rpc = "done" /\ processed[1].outcome = "updated") =>
        /\ processed[2].outcome = "unchanged"
        /\ processed[2].manifest.agentConfig = processed[1].manifest.agentConfig
        /\ processed[2].manifest.version = processed[1].manifest.version
        /\ packageJson = processed[1].manifest

\* A manifest with a configuration and version 1.9.9 got a new name and
\* version 1.9.10 from the first processing, and kept both in the second
C28_Witness ==
    /\ rpc = "done"
    /\ processed[1].outcome = "updated"
    /\ processed[1].manifest.version = << <<"1">>, <<"9">>, <<"1", "0">> >>
    /\ DOMAIN processed[1].manifest.agentConfig.pluginParameters = {"A", "B"}
    /\ packageJson.version = << <<"1">>, <<"9">>, <<"1", "0">> >>
    /\ Len(extraction) = 3

-----------------------------------------------------------------------------
(* Properties of the working trees                                         *)

\* processRepository has settled for the current package: it returned true
\* or false, or it rejected
Settled == settled # "no"

\* C29: a package's working tree exists only while the package is being
\* processed: once processRepository has settled, with whatever outcome, the
\* tree is gone, so at most one tree exists at a time and none exists when
\* the next package starts or when the run has ended.
C29_TreeOnlyDuringProcessing ==
    /\ Cardinality(workingTrees) <= 1
    /\ Settled => repo \notin workingTrees
    /\ (pc = "start") => workingTrees = {}
    /\ Terminated => workingTrees = {}

\* What holds of the working trees whatever fs.remove does: the only tree is
\* the one of the current package, and where processRepository returned, or
\* the run completed, there is none
TreesBoundedByCurrent ==
    /\ workingTrees \subseteq {repo}
    /\ (settled \in {"true", "false"}) => workingTrees = {}
    /\ (runpc = "completed") => workingTrees = {}

=============================================================================
